---- MODULE Spec2Model ----
(***************************************************************************)
(* A model of the PIML codec (package piml): the Encoder of marshal.go,    *)
(* the Decoder of unmarshal.go and the Marshal / Unmarshal entry points.   *)
(*                                                                         *)
(* Text is modelled by TLA+ strings (a Go string or []byte is a sequence   *)
(* of characters; every character used here is ASCII, so bytes, runes and  *)
(* characters coincide).  Go values are modelled by tagged records:        *)
(*   [i |-> n]        an int / uint value                                  *)
(*   [f |-> n]        a float value, in tenths (12 is 1.2)                 *)
(*   [b |-> TRUE]     a bool                                               *)
(*   [s |-> "text"]   a string                                             *)
(*   [nil |-> k]      the nil pointer / slice / map / interface            *)
(*   [p |-> v]        a non-nil pointer to v                               *)
(*   [l |-> <<..>>]   a non-nil slice (possibly of length 0)               *)
(*   [m |-> f]        a non-nil map, f a function from key strings         *)
(*   [dyn |-> v]      a non-nil interface value                            *)
(*   [flds |-> <<>>]  a struct, one value per declared field               *)
(* and Go types by records with a "kind" field (see the type section).     *)
(***************************************************************************)
EXTENDS Integers, Sequences, FiniteSets, TLC

(***************************************************************************)
(* Bounds of the model.                                                    *)
(***************************************************************************)
MaxDocLines == 4
MaxElems == 2

(***************************************************************************)
(* package strings / strconv: the library functions the codec calls.       *)
(***************************************************************************)
At(s, i) == SubSeq(s, i, i)

Drop(s, n) == SubSeq(s, n + 1, Len(s))

Take(s, n) == SubSeq(s, 1, n)

\* unicode.IsSpace restricted to ASCII
IsSpace(c) == c \in {" ", "\t", "\n", "\r", "\f"}

\* strings.HasPrefix
HasPrefix(s, prefix) == Len(s) >= Len(prefix) /\ Take(s, Len(prefix)) = prefix

\* strings.Index for a one-character needle: the 0-based index of the first
\* occurrence, or -1.
Index(s, c) ==
    IF \E i \in 1..Len(s) : At(s, i) = c
    THEN (CHOOSE i \in 1..Len(s) : At(s, i) = c /\ \A j \in 1..(i - 1) : At(s, j) # c) - 1
    ELSE -1

\* strings.Contains for a one-character needle
Contains(s, c) == Index(s, c) # -1

\* strings.TrimSpace
TrimSpace(s) ==
    IF \A i \in 1..Len(s) : IsSpace(At(s, i))
    THEN ""
    ELSE LET first == CHOOSE i \in 1..Len(s) :
                          ~IsSpace(At(s, i)) /\ \A j \in 1..(i - 1) : IsSpace(At(s, j))
             last  == CHOOSE i \in 1..Len(s) :
                          ~IsSpace(At(s, i)) /\ \A j \in (i + 1)..Len(s) : IsSpace(At(s, j))
         IN  SubSeq(s, first, last)

RECURSIVE Repeat(_, _)
\* strings.Repeat
Repeat(s, count) == IF count <= 0 THEN "" ELSE s \o Repeat(s, count - 1)

RECURSIVE Split(_, _)
\* strings.Split for a one-character separator
Split(s, sep) ==
    LET i == Index(s, sep)
    IN  IF i = -1 THEN <<s>> ELSE <<Take(s, i)>> \o Split(Drop(s, i + 1), sep)

UpperLetters == "ABCDEFGHIJKLMNOPQRSTUVWXYZ"

LowerLetters == "abcdefghijklmnopqrstuvwxyz"

RECURSIVE ToLower(_)
\* strings.ToLower
ToLower(s) ==
    IF s = "" THEN ""
    ELSE LET c == Head(s)
             i == Index(UpperLetters, c)
         IN  (IF i = -1 THEN c ELSE At(LowerLetters, i + 1)) \o ToLower(Tail(s))

Digits == "0123456789"

IsDigit(c) == Index(Digits, c) # -1

RECURSIVE FormatNat(_)
FormatNat(n) ==
    IF n < 10 THEN At(Digits, n + 1) ELSE FormatNat(n \div 10) \o At(Digits, (n % 10) + 1)

\* strconv.FormatInt(i, 10)
FormatInt(i) == IF i < 0 THEN "-" \o FormatNat(-i) ELSE FormatNat(i)

\* strconv.FormatUint(i, 10)
FormatUint(i) == FormatNat(i)

RECURSIVE ParseNat(_)
\* the value of a non-empty string of decimal digits
ParseNat(s) ==
    IF Len(s) = 1 THEN Index(Digits, s)
    ELSE 10 * ParseNat(Take(s, Len(s) - 1)) + Index(Digits, At(s, Len(s)))

AllDigits(s) == s # "" /\ \A i \in 1..Len(s) : IsDigit(At(s, i))

\* The longest digit string the model gives to the parsers; every text of
\* the model is shorter, so the 64-bit range error of strconv never arises.
MaxDigits == 9

\* strconv.ParseInt(s, 10, 64): an optional sign and decimal digits
ParseInt(s) ==
    LET body == IF s # "" /\ Head(s) \in {"+", "-"} THEN Tail(s) ELSE s
    IN  IF AllDigits(body) /\ Len(body) <= MaxDigits
        THEN [ok |-> TRUE, val |-> IF Head(s) = "-" THEN -ParseNat(body) ELSE ParseNat(body)]
        ELSE [ok |-> FALSE, val |-> 0]

\* strconv.ParseUint(s, 10, 64): decimal digits, no sign
ParseUint(s) ==
    IF AllDigits(s) /\ Len(s) <= MaxDigits
    THEN [ok |-> TRUE, val |-> ParseNat(s)]
    ELSE [ok |-> FALSE, val |-> 0]

\* strconv.FormatBool
FormatBool(b) == IF b THEN "true" ELSE "false"

\* strconv.ParseBool
ParseBool(s) ==
    IF s \in {"1", "t", "T", "TRUE", "true", "True"} THEN [ok |-> TRUE, val |-> TRUE]
    ELSE IF s \in {"0", "f", "F", "FALSE", "false", "False"} THEN [ok |-> TRUE, val |-> FALSE]
    ELSE [ok |-> FALSE, val |-> FALSE]

\* strconv.FormatFloat(f, 'f', -1, 64) on a value given in tenths
FormatFloat(f) ==
    LET a == IF f < 0 THEN -f ELSE f
        whole == FormatNat(a \div 10)
        text == IF a % 10 = 0 THEN whole ELSE whole \o "." \o At(Digits, (a % 10) + 1)
    IN  IF f < 0 THEN "-" \o text ELSE text

\* strconv.ParseFloat(s, 64) on the decimal texts with at most one fraction
\* digit (the values the model represents); other texts of the model hold a
\* character that no float syntax allows and are rejected.
ParseFloat(s) ==
    LET body == IF s # "" /\ Head(s) \in {"+", "-"} THEN Tail(s) ELSE s
        dot == Index(body, ".")
        whole == IF dot = -1 THEN body ELSE Take(body, dot)
        frac == IF dot = -1 THEN "0" ELSE Drop(body, dot + 1)
        sign == IF s # "" /\ Head(s) = "-" THEN -1 ELSE 1
    IN  IF AllDigits(whole) /\ Len(whole) < MaxDigits /\ AllDigits(frac) /\ Len(frac) = 1
        THEN [ok |-> TRUE, val |-> sign * (10 * ParseNat(whole) + ParseNat(frac))]
        ELSE [ok |-> FALSE, val |-> 0]

(***************************************************************************)
(* Errors.  A Go error is modelled by the name of its message family;      *)
(* NoErr is the nil error.  The errors that wrap ErrSyntax are those of    *)
(* SyntaxErrors (errors.Is(err, ErrSyntax)).                               *)
(***************************************************************************)
NoErr == "nil"

ErrSyntaxTabs == "piml: syntax error: tabs are not allowed"

ErrSyntaxKey == "piml: syntax error: invalid key format, missing ')'"

ErrSyntaxExpectedKey == "piml: syntax error: expected (key) or (key) value"

ErrSyntaxLineType == "piml: syntax error: unknown line type"

ErrInvalidUnmarshal == "piml: Unmarshal(nil) or Unmarshal(non-pointer)"

ErrUnsupportedType == "piml: unsupported type for marshalling"

ErrSyntax == {ErrSyntaxTabs, ErrSyntaxKey, ErrSyntaxExpectedKey, ErrSyntaxLineType}

(***************************************************************************)
(* The Decoder: a line scanner and a one-line lookahead buffer.            *)
(***************************************************************************)
\* The nil *lineInfo
NilLine == [indent |-> 0, key |-> "", value |-> "", lineType |-> "nil"]

\* bufio's dropCR
dropCR(line) ==
    IF line # "" /\ At(line, Len(line)) = "\r" THEN Take(line, Len(line) - 1) ELSE line

RECURSIVE ScanLines(_)
\* The tokens bufio.Scanner yields with its default split function.
ScanLines(data) ==
    IF data = "" THEN <<>>
    ELSE LET i == Index(data, "\n")
         IN  IF i = -1 THEN <<dropCR(data)>>
             ELSE <<dropCR(Take(data, i))>> \o ScanLines(Drop(data, i + 1))

\* s holds the lines of the input and pos the number of them the scanner
\* has passed.
NewDecoder(data) == [s |-> ScanLines(data), pos |-> 0, peekBuf |-> NilLine]

\* Step 1 of peek: the line up to its first '#'.
CleanComments(fullLine) ==
    LET commentIdx == Index(fullLine, "#")
    IN  IF commentIdx # -1 THEN Take(fullLine, commentIdx) ELSE fullLine

RECURSIVE CountIndent(_)
\* Step 3 of peek: the number of leading spaces, or -1 when a tab is met
\* before the first character that is neither a space nor a tab.
CountIndent(cleanLine) ==
    IF cleanLine = "" THEN 0
    ELSE IF Head(cleanLine) = " "
         THEN LET rest == CountIndent(Tail(cleanLine))
              IN  IF rest = -1 THEN -1 ELSE rest + 1
         ELSE IF Head(cleanLine) = "\t" THEN -1 ELSE 0

\* The lineInfo of a key line
KeyLineOf(key, keyValue, indent) ==
    [indent |-> indent, key |-> key, value |-> keyValue,
     lineType |-> IF keyValue = "" THEN "lineKeyOnly" ELSE "lineKeyValue"]

\* The key branch of step 4 of peek; closeParen is the index of the first
\* ')' of lineContent.
KeyLine(lineContent, closeParen, indent) ==
    IF closeParen = -1
    THEN NilLine
    ELSE KeyLineOf(SubSeq(lineContent, 2, closeParen),
                   TrimSpace(Drop(lineContent, closeParen + 1)), indent)

\* Step 4 of peek testing the prefix ">" before "> (" and ">|"
ClassifyItemFirst(lineContent, cleanLine, indent) ==
    IF HasPrefix(lineContent, ">")
    THEN [indent |-> indent, key |-> "", value |-> TrimSpace(Drop(lineContent, 1)),
          lineType |-> "lineArrayItem"]
    ELSE IF HasPrefix(lineContent, "(")
    THEN KeyLine(lineContent, Index(lineContent, ")"), indent)
    ELSE [indent |-> indent, key |-> "", value |-> cleanLine, lineType |-> "lineMultiLine"]

\* Step 4 of peek, on lineContent, the line without its surrounding white
\* space: the lineInfo of a non-blank line.
Classify(lineContent, cleanLine, indent) ==
    IF HasPrefix(lineContent, "> (")
    THEN [indent |-> indent, key |-> "", value |-> "", lineType |-> "lineArrayObject"]
    ELSE IF HasPrefix(lineContent, ">|")
    THEN [indent |-> indent, key |-> "", value |-> TrimSpace(Drop(lineContent, 2)),
          lineType |-> "lineSetItem"]
    ELSE IF HasPrefix(lineContent, ">")
    THEN [indent |-> indent, key |-> "", value |-> TrimSpace(Drop(lineContent, 1)),
          lineType |-> "lineArrayItem"]
    ELSE IF HasPrefix(lineContent, "(")
    THEN KeyLine(lineContent, Index(lineContent, ")"), indent)
    ELSE [indent |-> indent, key |-> "", value |-> cleanLine, lineType |-> "lineMultiLine"]

\* Step 4 of peek
ParseLine(cleanLine, indent) == Classify(TrimSpace(cleanLine), cleanLine, indent)

\* The end of peek: the line is buffered and returned; a key line without
\* its ')' is a syntax error.
Buffer(d1, li) ==
    IF li = NilLine THEN [d |-> d1, line |-> NilLine, err |-> ErrSyntaxKey]
    ELSE [d |-> [d1 EXCEPT !.peekBuf = li], line |-> li, err |-> NoErr]

\* Steps 2 to 4 of peek on the line just scanned; d1 is the decoder past it.
ScanLine(d1, cleanLine, indent) ==
    IF indent = -1 THEN [d |-> d1, line |-> NilLine, err |-> ErrSyntaxTabs]
    ELSE Buffer(d1, ParseLine(cleanLine, indent))

RECURSIVE Scan(_)

\* Step 2 of peek: a line that is blank once its comment is cut is skipped.
SkipBlank(d1, cleanLine) ==
    IF TrimSpace(cleanLine) = "" THEN Scan(d1)
    ELSE ScanLine(d1, cleanLine, CountIndent(cleanLine))

\* The scanning loop of peek, entered with an empty buffer.
Scan(d) ==
    IF d.pos >= Len(d.s)
    THEN [d |-> d, line |-> NilLine, err |-> NoErr]
    ELSE SkipBlank([d EXCEPT !.pos = @ + 1], CleanComments(d.s[d.pos + 1]))

\* Decoder.peek
peek(d) ==
    IF d.peekBuf # NilLine
    THEN [d |-> d, line |-> d.peekBuf, err |-> NoErr]
    ELSE Scan(d)

\* Decoder.consume
consume(d) == [d EXCEPT !.peekBuf = NilLine]

RECURSIVE consumeChildren(_, _)

\* One pass of the loop of consumeChildren, after peek returned pk
consumeChild(pk, currentIndent) ==
    IF pk.err # NoErr \/ pk.line = NilLine THEN pk.d
    ELSE IF pk.line.indent > currentIndent
         THEN consumeChildren(consume(pk.d), currentIndent)
         ELSE pk.d

\* Decoder.consumeChildren
consumeChildren(d, currentIndent) == consumeChild(peek(d), currentIndent)

(***************************************************************************)
(* Go types and values (package reflect).                                  *)
(*   [kind |-> "int"], "int8", "uint", "uint8", "float64", "bool",         *)
(*   "string", "interface"                                                 *)
(*   [kind |-> "ptr", elem |-> T], [kind |-> "slice", elem |-> T]          *)
(*   [kind |-> "map", key |-> T, elem |-> T]                               *)
(*   [kind |-> "struct", name |-> "User", fields |-> << field, .. >>]      *)
(* with field = [name |-> "ID", tag |-> "id", anonymous |-> FALSE,         *)
(*               type |-> T].                                              *)
(***************************************************************************)
IntKinds == {"int", "int8", "int16", "int32", "int64"}

UintKinds == {"uint", "uint8", "uint16", "uint32", "uint64"}

FloatKinds == {"float32", "float64"}

\* The kind of the zero reflect.Value
Invalid == [kind |-> "invalid"]

\* reflect.Zero
RECURSIVE Zero(_)
Zero(T) ==
    CASE T.kind \in IntKinds \cup UintKinds -> [i |-> 0]
      [] T.kind \in FloatKinds -> [f |-> 0]
      [] T.kind = "bool" -> [b |-> FALSE]
      [] T.kind = "string" -> [s |-> ""]
      [] T.kind = "struct" -> [flds |-> [k \in 1..Len(T.fields) |-> Zero(T.fields[k].type)]]
      [] OTHER -> [nil |-> T.kind]

\* Value.IsNil
IsNil(v) == "nil" \in DOMAIN v

\* Value.Len of a slice or map
ValueLen(v) ==
    IF IsNil(v) THEN 0
    ELSE IF "l" \in DOMAIN v THEN Len(v.l)
    ELSE Cardinality(DOMAIN v.m)

isNilOrEmptyNilOnly(T, v) ==
    CASE T.kind \in {"ptr", "interface"} -> IsNil(v)
      [] T.kind \in {"slice", "map"} -> IsNil(v)
      [] OTHER -> FALSE

\* isNilOrEmpty
isNilOrEmpty(T, v) ==
    CASE T.kind \in {"ptr", "interface"} -> IsNil(v)
      [] T.kind \in {"slice", "map"} -> IsNil(v) \/ ValueLen(v) = 0
      [] OTHER -> FALSE

RECURSIVE Deref(_, _)
\* The loop "for v.Kind() == reflect.Ptr { v = v.Elem() }": the Elem of a
\* nil pointer is the zero Value, of kind Invalid.
Deref(T, v) ==
    IF T.kind # "ptr" THEN [T |-> T, v |-> v]
    ELSE IF IsNil(v) THEN [T |-> Invalid, v |-> v]
    ELSE Deref(T.elem, v.p)

(***************************************************************************)
(* The Encoder.  The writer is a bytes.Buffer, whose Write never fails; an *)
(* encoding step yields the text it wrote and its error.                   *)
(***************************************************************************)
Wrote(text) == [out |-> text, err |-> NoErr]

Failed(e) == [out |-> "", err |-> e]

\* r1 and then, unless r1 failed, r2
Then(r1, r2) ==
    IF r1.err # NoErr THEN r1 ELSE [out |-> r1.out \o r2.out, err |-> r2.err]

\* An indent of one space for each level
IndentStrOneSpace(indent) == IF indent > 0 THEN Repeat(" ", indent) ELSE ""

\* strings.Repeat("  ", indent) under "if indent > 0"
IndentStr(indent) == IF indent > 0 THEN Repeat("  ", indent) ELSE ""

\* The keys of a map in the iteration order ord (Go leaves the order of
\* Value.MapKeys unspecified).
MapKeys(v, ord) == SelectSeq(ord, LAMBDA k : k \in DOMAIN v.m)

\* The scalar branches of encodeValue and writePrimitiveArrayItem
FormatScalar(T, v) ==
    CASE T.kind \in IntKinds -> FormatInt(v.i)
      [] T.kind \in UintKinds -> FormatUint(v.i)
      [] T.kind \in FloatKinds -> FormatFloat(v.f)
      [] T.kind = "bool" -> FormatBool(v.b)
      [] T.kind = "string" -> v.s

RECURSIVE EscapeLines(_, _)
\* The loop of encodeString over the lines of a multi-line string
EscapeLines(lines, lineIndentStr) ==
    IF lines = <<>> THEN ""
    ELSE LET line == IF HasPrefix(Head(lines), "#") THEN "\\" \o Head(lines) ELSE Head(lines)
         IN  lineIndentStr \o line \o "\n" \o EscapeLines(Tail(lines), lineIndentStr)

\* Encoder.encodeString
encodeString(v, indent, inArray) ==
    LET s == v.s
        indentStr == IndentStr(indent)
    IN  IF Contains(s, "\n")
        THEN IF inArray
             THEN Wrote(indentStr \o "> ... (multi-line not fully supported in array yet)\n")
             ELSE Wrote("\n" \o EscapeLines(Split(s, "\n"), IndentStr(indent + 1)))
        ELSE IF inArray THEN Wrote(indentStr \o "> " \o s \o "\n")
             ELSE Wrote(" " \o s \o "\n")

\* Encoder.writePrimitiveArrayItem
writePrimitiveArrayItem(T, v, indentStr) ==
    LET dv == Deref(T, v)
    IN  IF dv.T.kind \in IntKinds \cup UintKinds \cup FloatKinds \cup {"bool", "string"}
        THEN Wrote(indentStr \o "> " \o FormatScalar(dv.T, dv.v) \o "\n")
        ELSE Failed(ErrUnsupportedType)

RECURSIVE encodeValue(_, _, _, _, _)
RECURSIVE encodeStructFrom(_, _, _, _, _)
RECURSIVE encodeSliceFrom(_, _, _, _, _)
RECURSIVE encodeMapFrom(_, _, _, _, _)

\* Encoder.encodeStruct
encodeStruct(T, v, indent, ord) == encodeStructFrom(T, v, indent, ord, 1)

\* Encoder.encodeSlice
encodeSlice(T, v, indent, ord) ==
    IF ValueLen(v) = 0 THEN Wrote("") ELSE encodeSliceFrom(T, v, indent, ord, 1)

\* Encoder.encodeMap
encodeMap(T, v, indent, ord) == encodeMapFrom(T, v, indent, ord, MapKeys(v, ord))

\* Encoder.encodeValue
encodeValue(T, v, indent, inArray, ord) ==
    IF T.kind = "invalid" \/ isNilOrEmpty(T, v)
    THEN IF inArray THEN Wrote("") ELSE Wrote(" nil\n")
    ELSE LET indentStr == IndentStr(indent)
             dv == Deref(T, v)
             k == dv.T.kind
         IN  CASE k = "struct" ->
                    IF inArray
                    THEN Then(Wrote(indentStr \o "> ("
                                    \o (IF dv.T.name = "" THEN "item" ELSE dv.T.name) \o ")\n"),
                              encodeStruct(dv.T, dv.v, indent + 1, ord))
                    ELSE Then(Wrote(IF indent > -1 THEN "\n" ELSE ""),
                              encodeStruct(dv.T, dv.v, indent, ord))
               [] k = "slice" ->
                    Then(Wrote(IF inArray THEN "" ELSE "\n"),
                         encodeSlice(dv.T, dv.v, indent + 1, ord))
               [] k = "map" ->
                    Then(Wrote(IF inArray THEN "" ELSE "\n"),
                         encodeMap(dv.T, dv.v, indent, ord))
               [] k = "string" -> encodeString(dv.v, indent, inArray)
               [] k \in IntKinds \cup UintKinds \cup FloatKinds \cup {"bool"} ->
                    IF inArray THEN Wrote(indentStr \o "> " \o FormatScalar(dv.T, dv.v) \o "\n")
                    ELSE Wrote(" " \o FormatScalar(dv.T, dv.v) \o "\n")
               [] OTHER -> Failed(ErrUnsupportedType)

\* The loop of encodeStruct, from field i on
encodeStructFrom(T, v, indent, ord, i) ==
    IF i > Len(T.fields) THEN Wrote("")
    ELSE LET field == T.fields[i]
             fieldIndent == indent + 1
             tag == IF field.tag = "" THEN ToLower(field.name) ELSE field.tag
         IN  IF field.tag = "-"
             THEN encodeStructFrom(T, v, indent, ord, i + 1)
             ELSE Then(Then(Wrote(IndentStr(fieldIndent) \o "(" \o tag \o ")"),
                            encodeValue(field.type, v.flds[i], fieldIndent, FALSE, ord)),
                       encodeStructFrom(T, v, indent, ord, i + 1))

\* The loops of encodeSlice, from element i on
encodeSliceFrom(T, v, indent, ord, i) ==
    IF i > Len(v.l) THEN Wrote("")
    ELSE LET elemType == IF T.elem.kind = "ptr" THEN T.elem.elem ELSE T.elem
         IN  Then(IF elemType.kind = "struct"
                  THEN encodeValue(T.elem, v.l[i], indent, TRUE, ord)
                  ELSE writePrimitiveArrayItem(T.elem, v.l[i], IndentStr(indent)),
                  encodeSliceFrom(T, v, indent, ord, i + 1))

\* The loop of encodeMap, over the keys still to write
encodeMapFrom(T, v, indent, ord, keys) ==
    IF keys = <<>> THEN Wrote("")
    ELSE LET fieldIndent == indent + 1
         IN  IF T.key.kind # "string" THEN Failed("piml: map keys must be strings")
             ELSE Then(Then(Wrote(IndentStr(fieldIndent) \o "(" \o Head(keys) \o ")"),
                            encodeValue(T.elem, v.m[Head(keys)], fieldIndent, FALSE, ord)),
                       encodeMapFrom(T, v, indent, ord, Tail(keys)))

\* Encoder.Encode
Encode(T, v, ord) == encodeValue(T, v, -1, FALSE, ord)

\* Marshal: the bytes of the buffer, or nil with the error
Marshal(T, v, ord) ==
    LET r == Encode(T, v, ord)
    IN  IF r.err # NoErr THEN [out |-> "", err |-> r.err] ELSE r

(***************************************************************************)
(* The Decoder's recursive descent.  A decoding step takes the decoder d   *)
(* and the destination (its type T and current value v) and yields the     *)
(* decoder, the destination's value and the error after the step; the      *)
(* value is the one the destination holds even when the step fails.        *)
(***************************************************************************)
Result(d, v, err) == [d |-> d, v |-> v, err |-> err]

RECURSIVE indirect(_, _, _)
\* indirect: the type and value reached through the pointers of v
indirect(T, v, forceAlloc) ==
    IF T.kind # "ptr" THEN [T |-> T, v |-> v]
    ELSE IF IsNil(v)
         THEN IF forceAlloc THEN indirect(T.elem, Zero(T.elem), forceAlloc)
              ELSE [T |-> T, v |-> v]
         ELSE indirect(T.elem, v.p, forceAlloc)

RECURSIVE Store(_, _, _, _)
\* v after indirect(T, v, forceAlloc) allocated its nil pointers and the
\* value it reached was set to inner
Store(T, v, forceAlloc, inner) ==
    IF T.kind # "ptr" THEN inner
    ELSE IF IsNil(v)
         THEN IF forceAlloc THEN [p |-> Store(T.elem, Zero(T.elem), forceAlloc, inner)]
              ELSE inner
         ELSE [p |-> Store(T.elem, v.p, forceAlloc, inner)]

\* reflect.New(elemType): a non-settable pointer to a fresh zero element
NewPtrType(elemType) == [kind |-> "ptr", elem |-> elemType]

NewPtr(elemType) == [p |-> Zero(elemType)]

\* No overflow check
OverflowNever(T, i) == FALSE

\* Value.OverflowInt / Value.OverflowUint for the kinds of at most 16 bits
\* (the values of the model fit every wider kind)
OverflowInt(T, i) ==
    CASE T.kind = "int8" -> i < -128 \/ i > 127
      [] T.kind = "int16" -> i < -32768 \/ i > 32767
      [] T.kind = "uint8" -> i > 255
      [] T.kind = "uint16" -> i > 65535
      [] OTHER -> FALSE

\* Step 3 of setPrimitive: the switch on the kind of the dereferenced value
SetByKind(T, v, valueStr) ==
    LET k == T.kind
        pi == ParseInt(valueStr)
        pu == ParseUint(valueStr)
        pf == ParseFloat(valueStr)
        pb == ParseBool(valueStr)
    IN  CASE k = "string" -> [v |-> [s |-> valueStr], err |-> NoErr]
          [] k \in IntKinds ->
               IF ~pi.ok THEN [v |-> v, err |-> "piml: invalid integer value"]
               ELSE IF OverflowInt(T, pi.val) THEN [v |-> v, err |-> "piml: integer overflow"]
               ELSE [v |-> [i |-> pi.val], err |-> NoErr]
          [] k \in UintKinds ->
               IF ~pu.ok THEN [v |-> v, err |-> "piml: invalid unsigned integer value"]
               ELSE IF OverflowInt(T, pu.val) THEN [v |-> v, err |-> "piml: integer overflow"]
               ELSE [v |-> [i |-> pu.val], err |-> NoErr]
          [] k \in FloatKinds ->
               IF ~pf.ok THEN [v |-> v, err |-> "piml: invalid float value"]
               ELSE [v |-> [f |-> pf.val], err |-> NoErr]
          [] k = "bool" ->
               IF ~pb.ok THEN [v |-> v, err |-> "piml: invalid boolean value"]
               ELSE [v |-> [b |-> pb.val], err |-> NoErr]
          [] OTHER -> [v |-> v, err |-> "piml: cannot unmarshal primitive into"]

ErrNilToNonNillable == "piml: cannot assign nil to non-nillable type"

NilableKindsNoSlice == {"ptr", "map", "interface"}

NilableKindsAndString == {"ptr", "slice", "map", "interface", "string"}

\* The kinds setPrimitive accepts the literal nil for
NilableKinds == {"ptr", "slice", "map", "interface"}

\* Decoder.setPrimitive; canSet is v.CanSet()
setPrimitive(T, v, canSet, valueStr) ==
    IF valueStr = "nil"
    THEN LET T1 == IF canSet THEN T ELSE T.elem
             v1 == IF canSet THEN v ELSE v.p
             r1 == IF T1.kind \in NilableKinds
                   THEN [v |-> [nil |-> T1.kind], err |-> NoErr]
                   ELSE [v |-> v1, err |-> ErrNilToNonNillable]
         IN  [v |-> IF canSet THEN r1.v ELSE [p |-> r1.v], err |-> r1.err]
    ELSE LET in == indirect(T, v, TRUE)
             r == SetByKind(in.T, in.v, valueStr)
         IN  [v |-> Store(T, v, TRUE, r.v), err |-> r.err]

RECURSIVE findStructFieldFromUntagged(_, _, _)
findStructFieldFromUntagged(T, key, i) ==
    IF i > Len(T.fields) THEN <<>>
    ELSE LET fieldT == T.fields[i]
             sub == findStructFieldFromUntagged(fieldT.type, key, 1)
         IN  IF fieldT.tag = key THEN <<i>>
             ELSE IF fieldT.tag = "" /\ ToLower(fieldT.name) = key THEN <<i>>
             ELSE IF fieldT.anonymous /\ fieldT.tag = "" /\ fieldT.type.kind = "struct"
                     /\ sub # <<>>
                  THEN <<i>> \o sub
             ELSE findStructFieldFromUntagged(T, key, i + 1)

RECURSIVE findStructFieldFrom(_, _, _)
\* The loop of findStructField, from field i on.  The reflect.Value of the
\* field found is given by its path: the index of the field, preceded by
\* the indices of the embedded structs it was found through; <<>> stands
\* for the "not found" error.
findStructFieldFrom(T, key, i) ==
    IF i > Len(T.fields) THEN <<>>
    ELSE LET fieldT == T.fields[i]
             sub == findStructFieldFrom(fieldT.type, key, 1)
         IN  IF fieldT.tag = key THEN <<i>>
             ELSE IF fieldT.tag = "" /\ ToLower(fieldT.name) = key THEN <<i>>
             ELSE IF fieldT.anonymous /\ fieldT.type.kind = "struct" /\ sub # <<>>
                  THEN <<i>> \o sub
             ELSE findStructFieldFrom(T, key, i + 1)

\* findStructField
findStructField(T, key) == findStructFieldFrom(T, key, 1)

RECURSIVE FieldType(_, _)
\* The type of the field at a path
FieldType(T, path) ==
    IF Len(path) = 1 THEN T.fields[path[1]].type
    ELSE FieldType(T.fields[path[1]].type, Tail(path))

RECURSIVE FieldValue(_, _)
\* The value of the field at a path
FieldValue(v, path) ==
    IF Len(path) = 1 THEN v.flds[path[1]] ELSE FieldValue(v.flds[path[1]], Tail(path))

RECURSIVE SetField(_, _, _)
\* The struct v with the field at a path set to x
SetField(v, path, x) ==
    IF Len(path) = 1 THEN [flds |-> [v.flds EXCEPT ![path[1]] = x]]
    ELSE [flds |-> [v.flds EXCEPT ![path[1]] = SetField(@, Tail(path), x)]]

\* Value.SetMapIndex
SetMapIndex(v, key, x) ==
    [m |-> [k \in DOMAIN v.m \cup {key} |-> IF k = key THEN x ELSE v.m[k]]]

\* reflect.MakeMap
MakeMap == [m |-> <<>>]

\* reflect.MakeSlice(t, 0, 0)
MakeSlice == [l |-> <<>>]

RECURSIVE decodeValue(_, _, _, _)
RECURSIVE decodeObjectLoop(_, _, _, _)
RECURSIVE decodeSliceLoop(_, _, _, _)
RECURSIVE decodeSetLoop(_, _, _, _)
RECURSIVE decodeMultiLineLoop(_, _, _, _)

\* The result of a step that set a primitive: sp is what setPrimitive gave
Primitive(d, sp) == Result(d, sp.v, sp.err)

\* The result of a step that decoded r into the value reached by
\* indirect(T, v, forceAlloc)
Stored(T, v, forceAlloc, r) == Result(r.d, Store(T, v, forceAlloc, r.v), r.err)

\* One pass of the loop of decodeObject for a line whose key found no field
SkipUnknown(d, line) ==
    IF line.lineType = "lineKeyOnly"
    THEN consumeChildren(consume(d), line.indent)
    ELSE consume(d)

\* The destination of a key of decodeObject: the field found, or a fresh
\* element of the map
Target(T, v, path) ==
    IF T.kind = "struct"
    THEN [T |-> FieldType(T, path), v |-> FieldValue(v, path)]
    ELSE [T |-> NewPtrType(T.elem), v |-> NewPtr(T.elem)]

\* decodeKey taking a child for nested only from two columns to the right
decodeKeyTwoColumns(d, line, target, canSet) ==
    IF line.lineType = "lineKeyValue"
    THEN Primitive(consume(d), setPrimitive(target.T, target.v, canSet, line.value))
    ELSE decodeValue(consume(d), target.T, target.v, line.indent + 1)

\* The value of a key of decodeObject decoded into its destination
decodeKey(d, line, target, canSet) ==
    IF line.lineType = "lineKeyValue"
    THEN Primitive(consume(d), setPrimitive(target.T, target.v, canSet, line.value))
    ELSE decodeValue(consume(d), target.T, target.v, line.indent)

\* The object after the key was decoded with result r: a field is written
\* in place, a map entry is set only when the decoding succeeded
Assigned(T, v, path, key, r) ==
    IF T.kind = "struct" THEN SetField(v, path, r.v)
    ELSE IF r.err = NoErr THEN SetMapIndex(v, key, r.v.p) ELSE v

\* The end of one pass of the loop of decodeObject
decodeObjectNext(T, v1, r, currentIndent) ==
    IF r.err # NoErr THEN Result(r.d, v1, r.err)
    ELSE decodeObjectLoop(r.d, T, v1, currentIndent)

\* One pass of the loop of decodeObject from the assignment on; r is the
\* result of decoding the key's value
decodeObjectStore(key, T, v, path, r, currentIndent) ==
    decodeObjectNext(T, Assigned(T, v, path, key, r), r, currentIndent)

\* One pass of the loop of decodeObject for a key line; path is the result
\* of findStructField
decodeObjectKey(pk, T, v, path, currentIndent) ==
    IF T.kind = "struct" /\ path = <<>>
    THEN decodeObjectLoop(SkipUnknown(pk.d, pk.line), T, v, currentIndent)
    ELSE decodeObjectStore(pk.line.key, T, v, path,
                           decodeKey(pk.d, pk.line, Target(T, v, path), T.kind = "struct"),
                           currentIndent)

\* One pass of the loop of decodeObject, after peek returned pk
decodeObjectLine(pk, T, v, currentIndent) ==
    IF pk.err # NoErr THEN Result(pk.d, v, pk.err)
    ELSE IF pk.line = NilLine \/ pk.line.indent <= currentIndent THEN Result(pk.d, v, NoErr)
    ELSE IF pk.line.lineType \notin {"lineKeyValue", "lineKeyOnly"}
         THEN Result(pk.d, v, ErrSyntaxExpectedKey)
    ELSE decodeObjectKey(pk, T, v, findStructField(T, pk.line.key), currentIndent)

\* The "for" loop of decodeObject; T and v are the struct or map reached by
\* indirect.
decodeObjectLoop(d, T, v, currentIndent) == decodeObjectLine(peek(d), T, v, currentIndent)

\* decodeObject giving the destination back as it was when a line fails
decodeObjectInTransactional(d, T, v, in, currentIndent) ==
    IF in.T.kind \notin {"map", "struct"}
    THEN Result(d, Store(T, v, TRUE, in.v), "piml: cannot unmarshal object into")
    ELSE IF in.T.kind = "map" /\ in.T.key.kind # "string"
    THEN Result(d, Store(T, v, TRUE, in.v), "piml: map key must be string")
    ELSE LET r == decodeObjectLoop(d, in.T,
                                   IF in.T.kind = "map" /\ IsNil(in.v) THEN MakeMap ELSE in.v,
                                   currentIndent)
         IN  IF r.err # NoErr THEN Result(r.d, v, r.err) ELSE Stored(T, v, TRUE, r)

\* decodeObject on in, the type and value reached by indirect
decodeObjectIn(d, T, v, in, currentIndent) ==
    IF in.T.kind \notin {"map", "struct"}
    THEN Result(d, Store(T, v, TRUE, in.v), "piml: cannot unmarshal object into")
    ELSE IF in.T.kind = "map" /\ in.T.key.kind # "string"
    THEN Result(d, Store(T, v, TRUE, in.v), "piml: map key must be string")
    ELSE Stored(T, v, TRUE,
                decodeObjectLoop(d, in.T,
                                 IF in.T.kind = "map" /\ IsNil(in.v) THEN MakeMap ELSE in.v,
                                 currentIndent))

\* Decoder.decodeObject
decodeObject(d, T, v, currentIndent) ==
    decodeObjectIn(d, T, v, indirect(T, v, TRUE), currentIndent)

\* An item of decodeSlice decoded into a fresh element
decodeItem(d, line, elemType) ==
    IF line.lineType = "lineArrayObject"
    THEN decodeValue(consume(d), NewPtrType(elemType), NewPtr(elemType), line.indent)
    ELSE Primitive(consume(d),
                   setPrimitive(NewPtrType(elemType), NewPtr(elemType), FALSE, line.value))

\* decodeSlice appending to the elements the list held
decodeSliceInAppending(d, T, v, in, currentIndent) ==
    IF in.T.kind # "slice"
    THEN Result(d, v, "piml: cannot unmarshal array into")
    ELSE Stored(T, v, FALSE,
                decodeSliceLoop(d, in.T, IF IsNil(in.v) THEN MakeSlice ELSE in.v,
                                currentIndent))

\* The end of one pass of the loop of decodeSlice
decodeSliceNext(T, v, r, currentIndent) ==
    IF r.err # NoErr THEN Result(r.d, v, r.err)
    ELSE decodeSliceLoop(r.d, T, [l |-> Append(v.l, r.v.p)], currentIndent)

\* One pass of the loop of decodeSlice, after peek returned pk
decodeSliceLine(pk, T, v, currentIndent) ==
    IF pk.err # NoErr THEN Result(pk.d, v, pk.err)
    ELSE IF pk.line = NilLine \/ pk.line.indent <= currentIndent THEN Result(pk.d, v, NoErr)
    ELSE IF pk.line.lineType \notin {"lineArrayObject", "lineArrayItem"}
         THEN Result(pk.d, v, NoErr)
    ELSE decodeSliceNext(T, v, decodeItem(pk.d, pk.line, T.elem), currentIndent)

\* The "for" loop of decodeSlice; T is the slice type and v the slice built
\* so far.
decodeSliceLoop(d, T, v, currentIndent) == decodeSliceLine(peek(d), T, v, currentIndent)

\* decodeSlice on in, the type and value reached by indirect
decodeSliceIn(d, T, v, in, currentIndent) ==
    IF in.T.kind # "slice"
    THEN Result(d, v, "piml: cannot unmarshal array into")
    ELSE Stored(T, v, FALSE, decodeSliceLoop(d, in.T, MakeSlice, currentIndent))

\* Decoder.decodeSlice
decodeSlice(d, T, v, currentIndent) ==
    decodeSliceIn(d, T, v, indirect(T, v, FALSE), currentIndent)

\* One pass of the loop of decodeSet, after peek returned pk
decodeSetLine(pk, v, setValue, currentIndent) ==
    IF pk.err # NoErr THEN Result(pk.d, v, pk.err)
    ELSE IF pk.line = NilLine \/ pk.line.indent <= currentIndent THEN Result(pk.d, v, NoErr)
    ELSE IF pk.line.lineType # "lineSetItem" THEN Result(pk.d, v, NoErr)
    ELSE decodeSetLoop(consume(pk.d), SetMapIndex(v, pk.line.value, setValue), setValue,
                       currentIndent)

\* The "for" loop of decodeSet
decodeSetLoop(d, v, setValue, currentIndent) ==
    decodeSetLine(peek(d), v, setValue, currentIndent)

\* Whether a set's element type is struct{}
IsEmptyStruct(elemType) == elemType.kind = "struct" /\ Len(elemType.fields) = 0

\* decodeSet on in, the type and value reached by indirect
decodeSetIn(d, T, v, in, currentIndent) ==
    IF in.T.kind # "map" \/ in.T.key.kind # "string"
    THEN Result(d, v, "piml: sets must be unmarshalled into map[string]struct{} or map[string]bool")
    ELSE IF ~IsEmptyStruct(in.T.elem) /\ in.T.elem.kind # "bool"
    THEN Result(d, Store(T, v, FALSE, IF IsNil(in.v) THEN MakeMap ELSE in.v),
                "piml: set must be map[string]struct{} or map[string]bool")
    ELSE Stored(T, v, FALSE,
                decodeSetLoop(d, IF IsNil(in.v) THEN MakeMap ELSE in.v,
                              IF IsEmptyStruct(in.T.elem) THEN Zero(in.T.elem)
                              ELSE [b |-> TRUE],
                              currentIndent))

\* Decoder.decodeSet
decodeSet(d, T, v, currentIndent) ==
    decodeSetIn(d, T, v, indirect(T, v, FALSE), currentIndent)

\* The text a line adds to a multi-line string: the line without the base
\* indent, after a line feed for every line but the first
Piece(content, indent, baseIndent) ==
    IF baseIndent = -1
    THEN IF Len(content) > indent THEN Drop(content, indent) ELSE TrimSpace(content)
    ELSE "\n" \o (IF HasPrefix(content, Repeat(" ", baseIndent))
                  THEN Drop(content, baseIndent)
                  ELSE TrimSpace(content))

\* One pass of the loop of decodeMultiLineString, after peek returned pk
decodeMultiLineLine(pk, b, baseIndent, currentIndent) ==
    IF pk.err # NoErr THEN Result(pk.d, b, pk.err)
    ELSE IF pk.line = NilLine \/ pk.line.indent <= currentIndent THEN Result(pk.d, b, NoErr)
    ELSE IF pk.line.lineType # "lineMultiLine" THEN Result(pk.d, b, NoErr)
    ELSE decodeMultiLineLoop(consume(pk.d),
                             b \o Piece(pk.line.value, pk.line.indent, baseIndent),
                             IF baseIndent = -1 THEN pk.line.indent ELSE baseIndent,
                             currentIndent)

\* The "for" loop of decodeMultiLineString; b is the text built so far and
\* baseIndent the indent of the first line (-1 before it).  The result's v
\* is the text.
decodeMultiLineLoop(d, b, baseIndent, currentIndent) ==
    decodeMultiLineLine(peek(d), b, baseIndent, currentIndent)

\* The end of decodeMultiLineString: r is the result of the loop
decodeMultiLineEnd(T, v, in, r) ==
    IF r.err # NoErr THEN Result(r.d, Store(T, v, TRUE, in.v), r.err)
    ELSE Result(r.d, Store(T, v, TRUE, [s |-> r.v]), NoErr)

\* decodeMultiLineString on in, the type and value reached by indirect
decodeMultiLineIn(d, T, v, in, currentIndent) ==
    IF in.T.kind # "string"
    THEN Result(d, Store(T, v, TRUE, in.v), "piml: cannot unmarshal multi-line string into")
    ELSE decodeMultiLineEnd(T, v, in, decodeMultiLineLoop(d, "", -1, currentIndent))

\* Decoder.decodeMultiLineString
decodeMultiLineString(d, T, v, currentIndent) ==
    decodeMultiLineIn(d, T, v, indirect(T, v, TRUE), currentIndent)

\* decodeValue emptying a list when no deeper line follows
decodeValueLineEmptying(pk, T, v, currentIndent) ==
    IF pk.err # NoErr THEN Result(pk.d, v, pk.err)
    ELSE IF pk.line = NilLine \/ pk.line.indent <= currentIndent
         THEN Result(pk.d, IF T.kind = "slice" THEN MakeSlice ELSE v, NoErr)
    ELSE CASE pk.line.lineType \in {"lineKeyOnly", "lineKeyValue"} ->
                decodeObject(pk.d, T, v, currentIndent)
           [] pk.line.lineType \in {"lineArrayItem", "lineArrayObject"} ->
                decodeSlice(pk.d, T, v, currentIndent)
           [] pk.line.lineType = "lineSetItem" -> decodeSet(pk.d, T, v, currentIndent)
           [] pk.line.lineType = "lineMultiLine" ->
                decodeMultiLineString(pk.d, T, v, currentIndent)
           [] OTHER -> Result(pk.d, v, ErrSyntaxLineType)

\* decodeValue after peek returned pk
decodeValueLine(pk, T, v, currentIndent) ==
    IF pk.err # NoErr THEN Result(pk.d, v, pk.err)
    ELSE IF pk.line = NilLine THEN Result(pk.d, v, NoErr)
    ELSE IF pk.line.indent <= currentIndent THEN Result(pk.d, v, NoErr)
    ELSE CASE pk.line.lineType \in {"lineKeyOnly", "lineKeyValue"} ->
                decodeObject(pk.d, T, v, currentIndent)
           [] pk.line.lineType \in {"lineArrayItem", "lineArrayObject"} ->
                decodeSlice(pk.d, T, v, currentIndent)
           [] pk.line.lineType = "lineSetItem" -> decodeSet(pk.d, T, v, currentIndent)
           [] pk.line.lineType = "lineMultiLine" ->
                decodeMultiLineString(pk.d, T, v, currentIndent)
           [] OTHER -> Result(pk.d, v, ErrSyntaxLineType)

\* Decoder.decodeValue
decodeValue(d, T, v, currentIndent) == decodeValueLine(peek(d), T, v, currentIndent)

\* Decode without the test of the nil pointer
DecodeNonPtrOnly(d, T, v) ==
    IF T.kind # "ptr"
    THEN Result(d, v, ErrInvalidUnmarshal)
    ELSE decodeValue(d, T, v, -1)

\* Decoder.Decode: T and v are the type and value of the argument
Decode(d, T, v) ==
    IF T.kind # "ptr" \/ IsNil(v)
    THEN Result(d, v, ErrInvalidUnmarshal)
    ELSE decodeValue(d, T, v, -1)

\* Unmarshal
Unmarshal(data, T, v) == Decode(NewDecoder(data), T, v)

(***************************************************************************)
(* The record types of the package's tests, and the types the properties   *)
(* below add to them.                                                      *)
(***************************************************************************)
StringT == [kind |-> "string"]

IntT == [kind |-> "int"]

Int8T == [kind |-> "int8"]

Uint8T == [kind |-> "uint8"]

BoolT == [kind |-> "bool"]

Float64T == [kind |-> "float64"]

InterfaceT == [kind |-> "interface"]

PtrTo(T) == [kind |-> "ptr", elem |-> T]

SliceOf(T) == [kind |-> "slice", elem |-> T]

MapOf(T) == [kind |-> "map", key |-> StringT, elem |-> T]

StructT(name, fields) == [kind |-> "struct", name |-> name, fields |-> fields]

\* A named field with its piml tag ("" when it has none)
Field(name, tag, T) == [name |-> name, tag |-> tag, anonymous |-> FALSE, type |-> T]

\* An embedded (anonymous) field: its name is the name of its type
Embedded(tag, T) == [name |-> T.name, tag |-> tag, anonymous |-> TRUE, type |-> T]

SimpleConfig ==
    StructT("SimpleConfig",
            <<Field("SiteName", "site_name", StringT), Field("Port", "port", IntT),
              Field("IsProduction", "is_production", BoolT),
              Field("Version", "version", Float64T),
              Field("InternalCounter", "-", IntT)>>)

NilConfig ==
    StructT("NilConfig",
            <<Field("Admin", "admin", PtrTo(StringT)),
              Field("Features", "features", SliceOf(StringT)),
              Field("Aliases", "aliases", MapOf(IntT)),
              Field("SiteName", "site_name", StringT)>>)

User == StructT("User", <<Field("ID", "id", IntT), Field("Name", "name", StringT)>>)

DBConfig == StructT("DBConfig", <<Field("Host", "host", StringT), Field("Port", "port", IntT)>>)

ComplexConfig ==
    StructT("ComplexConfig",
            <<Field("Description", "description", StringT),
              Field("Database", "database", PtrTo(DBConfig)),
              Field("Admins", "admins", SliceOf(PtrTo(User))),
              Field("Features", "features", SliceOf(StringT))>>)

BaseSettings == StructT("BaseSettings", <<Field("Timeout", "timeout", IntT)>>)

AppSettings ==
    StructT("AppSettings", <<Embedded("", BaseSettings), Field("AppName", "app_name", StringT)>>)

Note == StructT("Note", <<Field("Content", "content", StringT)>>)

\* A record with one slot of every kind setPrimitive distinguishes
Slots ==
    StructT("Slots",
            <<Field("Ptr", "ptr", PtrTo(IntT)), Field("List", "list", SliceOf(StringT)),
              Field("Map", "map", MapOf(IntT)), Field("Any", "any", InterfaceT),
              Field("Int", "int", Int8T), Field("Uint", "uint", Uint8T),
              Field("Float", "float", Float64T), Field("Bool", "bool", BoolT),
              Field("Str", "str", StringT), Field("Dict", "dict", MapOf(StringT))>>)

\* Records that embed BaseSettings under a tag, under the tag "-", two
\* levels deep, under a tag equal to the embedded record's own key, and
\* after a field of the same key
TaggedSettings ==
    StructT("TaggedSettings",
            <<Field("AppName", "app_name", StringT), Embedded("base", BaseSettings)>>)

HiddenSettings == StructT("HiddenSettings", <<Embedded("-", BaseSettings)>>)

DeepSettings ==
    StructT("DeepSettings", <<Field("Level", "level", IntT), Embedded("", AppSettings)>>)

ClashSettings == StructT("ClashSettings", <<Embedded("timeout", BaseSettings)>>)

ShadowSettings ==
    StructT("ShadowSettings",
            <<Field("Timeout", "timeout", IntT), Embedded("", BaseSettings)>>)

\* Records with an untagged field Port, alone and before a field tagged
\* with the key the name of Port gives
Listener == StructT("Listener", <<Field("Port", "", IntT)>>)

Endpoint == StructT("Endpoint", <<Field("Port", "", IntT), Field("Alias", "port", IntT)>>)

(***************************************************************************)
(* The values and documents the calls are made with.                       *)
(***************************************************************************)
S(x) == [s |-> x]

I(n) == [i |-> n]

F(n) == [f |-> n]

B(x) == [b |-> x]

P(v) == [p |-> v]

Nil(kind) == [nil |-> kind]

Rec(fields) == [flds |-> fields]

\* The non-nil slices of at most MaxElems elements of a pool
Lists(pool) == {[l |-> q] : q \in UNION {[1..n -> pool] : n \in 0..MaxElems}}

\* The non-nil maps from some keys to the values of a pool
Maps(keys, pool) == {[m |-> f] : f \in UNION {[K -> pool] : K \in SUBSET keys}}

MapKeyPool == {"a", "b"}

\* The orders in which a map of these keys can be iterated
KeyOrders == {<<"a", "b">>, <<"b", "a">>}

RECURSIVE Docs(_, _)
\* The documents of at most n lines of a pool, each line ended by a newline
Docs(pool, n) ==
    IF n <= 0 THEN {""}
    ELSE LET shorter == Docs(pool, n - 1)
         IN  shorter \cup {doc \o line \o "\n" : doc \in shorter, line \in pool}

SimpleConfigValues ==
    {Rec(<<S(name), I(port), B(prod), F(12), I(counter)>>) :
        name \in {"PIML Demo", "a # b"}, port \in {8080, -1}, prod \in BOOLEAN,
        counter \in {0, 5}}

NilConfigValues ==
    {Rec(<<admin, features, aliases, S("Test")>>) :
        admin \in {Nil("ptr"), P(S("root"))},
        features \in {Nil("slice")} \cup Lists({S("auth")}),
        aliases \in {Nil("map")} \cup Maps(MapKeyPool, {I(1)})}

Alice == Rec(<<I(1), S("Alice")>>)

ComplexConfigValues ==
    {Rec(<<S(description), database, admins, features>>) :
        description \in {"a", "This is a\nmulti-line description.", "nil"},
        database \in {Nil("ptr"), P(Rec(<<S("localhost"), I(5432)>>)), P(Rec(<<S("a#b"), I(0)>>))},
        admins \in {Nil("slice")} \cup Lists({P(Alice), Nil("ptr")}),
        features \in {Nil("slice")} \cup Lists({S("auth"), S("")})}

NoteValues ==
    {Rec(<<S(content)>>) :
        content \in {"First line", "First line\nThird line.", "First line\n# Second line",
                     "#First line\nThird line.", "First line\n\nThird line."}}

SlotsZero == Zero(Slots)

SlotsFilled ==
    Rec(<<P(I(7)), [l |-> <<S("x")>>], [m |-> [k \in {"a"} |-> I(1)]], [dyn |-> I(3)],
          I(9), I(200), F(15), B(TRUE), S("old"), [m |-> [k \in {"str"} |-> S("v")]]>>)

EmbeddedTypes ==
    {AppSettings, TaggedSettings, HiddenSettings, DeepSettings, ClashSettings, ShadowSettings}

RECURSIVE Filled(_)
\* A value of a record type of scalars, none of them zero
Filled(T) ==
    CASE T.kind \in IntKinds -> I(9)
      [] T.kind = "string" -> S("old")
      [] T.kind = "struct" -> Rec([k \in 1..Len(T.fields) |-> Filled(T.fields[k].type)])

\* The arguments of the Marshal calls
MarshalInputs ==
    {[T |-> SimpleConfig, v |-> v] : v \in SimpleConfigValues}
    \cup {[T |-> NilConfig, v |-> v] : v \in NilConfigValues}
    \cup {[T |-> ComplexConfig, v |-> v] : v \in ComplexConfigValues}
    \cup {[T |-> Note, v |-> v] : v \in NoteValues}
    \cup {[T |-> Slots, v |-> v] : v \in {SlotsZero, SlotsFilled}}
    \cup {[T |-> T, v |-> Filled(T)] : T \in EmbeddedTypes}

SlotsLines ==
    {"(ptr) nil", "(list) nil", "(map) nil", "(any) nil", "(int) nil", "(uint) nil",
     "(float) nil", "(bool) nil", "(str) nil", "(dict) nil", "(int) 5", "(dict)", "  (str) nil"}

\* Scalar texts for the integer slots: whether the text is a base-10
\* integer, and its value
IntTexts ==
    {[text |-> "127", int |-> TRUE, val |-> 127], [text |-> "128", int |-> TRUE, val |-> 128],
     [text |-> "-128", int |-> TRUE, val |-> -128], [text |-> "-129", int |-> TRUE, val |-> -129],
     [text |-> "255", int |-> TRUE, val |-> 255], [text |-> "256", int |-> TRUE, val |-> 256],
     [text |-> "-1", int |-> TRUE, val |-> -1], [text |-> "5", int |-> TRUE, val |-> 5],
     [text |-> "thirty", int |-> FALSE, val |-> 0], [text |-> "1.5", int |-> FALSE, val |-> 0]}

\* Key-value lines for the slots Int (int8) and Uint (uint8) of Slots
IntLines == {"(" \o key \o ") " \o x.text : key \in {"int", "uint"}, x \in IntTexts}

DBConfigLines ==
    {"(zz)", "  (port) 9", "(port) 1", "(host) h", "(zz) 3", "(bad", "\t(port) 2"}

\* Full-line comments and a key-value line with a # after its value
CommentLines == {"# c", "  # c", "(host) h # n", "(port) 1"}

SimpleConfigLines == {"(-) 7", "(port) 8080", "(internalcounter) 3"}

EmbeddedLines == {"(timeout) 30", "(app_name) My-App", "(basesettings)", "  (timeout) 7"}

NoteLines == {"(content)", "  a", "", "  b", "  \\#c", "(content) x"}

\* Key-only headers of a pointer, a list and a string slot of Slots, and a
\* key-value line
AbsentLines == {"(ptr)", "(list)", "(str)", "  (str)", "(int) 5"}

\* The header of the list of strings of Slots and items at several
\* indents, and a key-value line
ListLines == {"(list)", "  (list)", "  > a", "    > b", "> d", "(int) 5"}

\* The key of Port as its name gives it, and with the capital of the name
PortLines == {"(port) 1", "(Port) 2"}

\* Lines of every kind peek tells apart, well formed and not: list and set
\* lines, key lines, text, blank and comment lines, tabs
ScanPool ==
    {"> (User)", ">| a", "> a", ">(x)", "(first name) John", "(k)", "  (k) # c",
     "(bad", "(bad # )", "text", "  x (k)", "\t(k)", " \tx", "", "# c", "(a) b) c"}

\* The indent widths and the structural lines of a ComplexConfig document:
\* key lines, an object header and a list item, at each of the widths
IndentWidths == {0, 1, 3}

IndentContents == {"(admins)", "> (User)", "(id) 1", "> a"}

IndentLines == {Repeat(" ", w) \o c : w \in IndentWidths, c \in IndentContents}

\* The arguments of the Unmarshal calls: the record type T the destination
\* points to, the values vs it holds before the call, and the documents, of
\* at most len lines of a pool
UnmarshalInputs ==
    {[T |-> Slots, vs |-> {SlotsZero, SlotsFilled}, lines |-> SlotsLines,
      len |-> MaxDocLines - 2],
     [T |-> DBConfig, vs |-> {Zero(DBConfig), Filled(DBConfig)}, lines |-> DBConfigLines,
      len |-> MaxDocLines],
     [T |-> Slots, vs |-> {SlotsZero, SlotsFilled}, lines |-> IntLines,
      len |-> MaxDocLines - 2],
     [T |-> DBConfig, vs |-> {Zero(DBConfig), Filled(DBConfig)}, lines |-> CommentLines,
      len |-> MaxDocLines - 1],
     [T |-> SimpleConfig,
      vs |-> {Zero(SimpleConfig), Rec(<<S("old"), I(9), B(TRUE), F(15), I(5)>>)},
      lines |-> SimpleConfigLines, len |-> MaxDocLines - 2],
     [T |-> Note, vs |-> {Zero(Note), Filled(Note)}, lines |-> NoteLines,
      len |-> MaxDocLines],
     [T |-> ComplexConfig, vs |-> {Zero(ComplexConfig)}, lines |-> IndentLines,
      len |-> MaxDocLines - 1],
     [T |-> Slots, vs |-> {SlotsZero, SlotsFilled}, lines |-> AbsentLines,
      len |-> MaxDocLines - 1],
     [T |-> Slots, vs |-> {SlotsZero, SlotsFilled}, lines |-> ListLines,
      len |-> MaxDocLines - 1]}
    \cup {[T |-> T, vs |-> {Zero(T)}, lines |-> EmbeddedLines, len |-> MaxDocLines - 2] :
             T \in EmbeddedTypes}
    \cup {[T |-> T, vs |-> {Zero(T)}, lines |-> PortLines, len |-> MaxDocLines - 2] :
             T \in {Listener, Endpoint}}

TargetLines == {"(port) 1", "(host) h", "(bad"}

\* Set items and a key line
SetLines == {">| a", ">| b", "(k) true"}

\* The arguments of the Unmarshal calls whose destination is any value: the
\* type and the value of the destination itself, and the document.  The
\* destinations are a record passed by value, a scalar, a nil interface, a
\* nil pointer and a pointer to a record, and a pointer to a nil map of
\* booleans with documents of SetLines.
TargetInputs ==
    {[T |-> in.T, v |-> in.v, data |-> doc] :
        in \in {[T |-> DBConfig, v |-> Filled(DBConfig)], [T |-> IntT, v |-> I(3)],
                [T |-> InterfaceT, v |-> Nil("interface")],
                [T |-> PtrTo(DBConfig), v |-> Nil("ptr")],
                [T |-> PtrTo(DBConfig), v |-> P(Filled(DBConfig))]},
        doc \in Docs(TargetLines, MaxDocLines - 2)}
    \cup {[T |-> PtrTo(MapOf(BoolT)), v |-> P(Nil("map")), data |-> doc] :
             doc \in Docs(SetLines, MaxDocLines - 2)}

(***************************************************************************)
(* The state machine: one call of Marshal, followed or not by the          *)
(* Unmarshal of its output into a zero value, or one call of Unmarshal.    *)
(***************************************************************************)
VARIABLES
    pc,     \* "ready", "marshalled", "roundtrip", "unmarshalled", "decoded",
            \* or "scanning", "peeked", "consumed" for a Decoder driven by hand
    typ,    \* the record type of the call
    val,    \* the value given to Marshal, or the destination before Unmarshal
    ord,    \* the iteration order of the maps during Marshal
    data,   \* the document: Marshal's result or Unmarshal's argument
    err,    \* the error of the last call
    dst,    \* the destination after Unmarshal
    dec,    \* the Decoder after Unmarshal, or the Decoder driven by hand
    peeked, \* what the last call of peek returned
    hist    \* the lines peek returned when it scanned them, in order

vars == <<pc, typ, val, ord, data, err, dst, dec, peeked, hist>>

Init ==
    /\ pc = "ready"
    /\ typ = Note
    /\ val = Zero(Note)
    /\ ord = <<>>
    /\ data = ""
    /\ err = NoErr
    /\ dst = Zero(Note)
    /\ dec = NewDecoder("")
    /\ peeked = NilLine
    /\ hist = <<>>

\* data, err := Marshal(v)
MarshalCall ==
    /\ pc = "ready"
    /\ \E in \in MarshalInputs, o \in KeyOrders :
          \E r \in {Marshal(in.T, in.v, o)} :
              /\ typ' = in.T
              /\ val' = in.v
              /\ ord' = o
              /\ data' = r.out
              /\ err' = r.err
    /\ pc' = "marshalled"
    /\ UNCHANGED <<dst, dec, peeked, hist>>

\* var output T; err := Unmarshal(data, &output), on the output of Marshal
RoundTripCall ==
    /\ pc = "marshalled"
    /\ err = NoErr
    /\ \E r \in {Unmarshal(data, PtrTo(typ), P(Zero(typ)))} :
           /\ dst' = r.v.p
           /\ err' = r.err
           /\ dec' = r.d
    /\ pc' = "roundtrip"
    /\ UNCHANGED <<typ, val, ord, data, peeked, hist>>

\* err := Unmarshal(data, &output)
UnmarshalCall ==
    /\ pc = "ready"
    /\ \E in \in UnmarshalInputs :
          \E v \in in.vs, doc \in Docs(in.lines, in.len) :
              \E r \in {Unmarshal(doc, PtrTo(in.T), P(v))} :
                  /\ typ' = in.T
                  /\ val' = v
                  /\ data' = doc
                  /\ dst' = r.v.p
                  /\ err' = r.err
                  /\ dec' = r.d
    /\ pc' = "unmarshalled"
    /\ UNCHANGED <<ord, peeked, hist>>

\* err := Unmarshal(data, v) for a destination v of any type; typ, val and
\* dst are the type and the values of v itself
UnmarshalTargetCall ==
    /\ pc = "ready"
    /\ \E in \in TargetInputs :
          \E r \in {Unmarshal(in.data, in.T, in.v)} :
              /\ typ' = in.T
              /\ val' = in.v
              /\ data' = in.data
              /\ dst' = r.v
              /\ err' = r.err
              /\ dec' = r.d
    /\ pc' = "decoded"
    /\ UNCHANGED <<ord, peeked, hist>>

\* d := NewDecoder(data)
NewDecoderCall ==
    /\ pc = "ready"
    /\ \E doc \in Docs(ScanPool, MaxDocLines - 2) :
           /\ data' = doc
           /\ dec' = NewDecoder(doc)
    /\ err' = NoErr
    /\ peeked' = NilLine
    /\ hist' = <<>>
    /\ pc' = "scanning"
    /\ UNCHANGED <<typ, val, ord, dst>>

\* line, err := d.peek()
PeekCall ==
    /\ pc \in {"scanning", "peeked", "consumed"}
    /\ \E pk \in {peek(dec)} :
           /\ dec' = pk.d
           /\ peeked' = pk.line
           /\ err' = pk.err
           /\ hist' = IF dec.peekBuf = NilLine /\ pk.line # NilLine
                      THEN Append(hist, pk.line) ELSE hist
    /\ pc' = "peeked"
    /\ UNCHANGED <<typ, val, ord, data, dst>>

\* d.consume()
ConsumeCall ==
    /\ pc \in {"scanning", "peeked", "consumed"}
    /\ dec' = consume(dec)
    /\ pc' = "consumed"
    /\ UNCHANGED <<typ, val, ord, data, err, dst, peeked, hist>>

Next ==
    \/ MarshalCall
    \/ RoundTripCall
    \/ UnmarshalCall
    \/ UnmarshalTargetCall
    \/ NewDecoderCall
    \/ PeekCall
    \/ ConsumeCall

Spec == Init /\ [][Next]_vars

(***************************************************************************)
(* Vocabulary of the properties.                                           *)
(***************************************************************************)
\* The lines of the document
DataLines == Split(data, "\n")

\* The key a field is written and read under
SemanticKey(field) == IF field.tag = "" THEN ToLower(field.name) ELSE field.tag

RECURSIVE NoNilNoEmpty(_)
\* The value holds no nil pointer, slice, map or interface and no empty
\* slice or map
NoNilNoEmpty(v) ==
    CASE "nil" \in DOMAIN v -> FALSE
      [] "dyn" \in DOMAIN v -> FALSE
      [] "p" \in DOMAIN v -> NoNilNoEmpty(v.p)
      [] "l" \in DOMAIN v -> v.l # <<>> /\ \A k \in 1..Len(v.l) : NoNilNoEmpty(v.l[k])
      [] "m" \in DOMAIN v -> DOMAIN v.m # {} /\ \A k \in DOMAIN v.m : NoNilNoEmpty(v.m[k])
      [] "flds" \in DOMAIN v -> \A k \in 1..Len(v.flds) : NoNilNoEmpty(v.flds[k])
      [] OTHER -> TRUE

ScalarKinds == IntKinds \cup UintKinds \cup FloatKinds \cup {"bool", "string"}

RECURSIVE RoundTripType(_)
\* A record type of scalars, nested records, lists of scalars, lists of
\* records and string-keyed maps of scalars, with no excluded field
RoundTripType(T) ==
    CASE T.kind \in ScalarKinds -> TRUE
      [] T.kind = "ptr" -> RoundTripType(T.elem)
      [] T.kind = "slice" ->
           LET E == IF T.elem.kind = "ptr" THEN T.elem.elem ELSE T.elem
           IN  E.kind \in ScalarKinds \/ (E.kind = "struct" /\ RoundTripType(E))
      [] T.kind = "map" -> T.elem.kind \in ScalarKinds
      [] T.kind = "struct" ->
           \A k \in 1..Len(T.fields) :
               T.fields[k].tag # "-" /\ RoundTripType(T.fields[k].type)
      [] OTHER -> FALSE

\* C1: for a record value of scalars, nested records, lists of scalars,
\* lists of records and maps of scalars, without nil pointer and without
\* empty list or map, decoding the output of Encode into a zero value
\* succeeds and gives back the value: Decode(Encode(v)) == v.
C1_RoundTrip ==
    (pc = "roundtrip" /\ RoundTripType(typ) /\ NoNilNoEmpty(val))
        => (err = NoErr /\ dst = val)

\* A nil pointer, nil list, nil map, or a list or map of length zero
IsCollapsed(v) ==
    \/ "nil" \in DOMAIN v /\ v.nil \in {"ptr", "slice", "map"}
    \/ "l" \in DOMAIN v /\ v.l = <<>>
    \/ "m" \in DOMAIN v /\ DOMAIN v.m = {}

\* The document has the line "(key) nil" at indent 0, with no child line
NilLineWithoutChildren(key) ==
    \E j \in 1..Len(DataLines) :
        /\ DataLines[j] = "(" \o key \o ") nil"
        /\ j < Len(DataLines) => ~HasPrefix(DataLines[j + 1], " ")

\* C2: for a record slot holding a nil pointer, a nil list, a nil map, a
\* zero-length list or a zero-length map, Encode emits in every case the
\* key followed on the same line by the token nil, with no child lines.
C2_NilEmptyCollapse ==
    (pc = "marshalled" /\ err = NoErr)
        => \A k \in 1..Len(typ.fields) :
               (typ.fields[k].tag # "-" /\ IsCollapsed(val.flds[k]))
                   => NilLineWithoutChildren(SemanticKey(typ.fields[k]))

\* C2's case: a record with a nil pointer, a zero-length list and a
\* zero-length map was encoded.
C2_Witness ==
    /\ pc = "marshalled"
    /\ err = NoErr
    /\ typ = NilConfig
    /\ val.flds[1] = Nil("ptr")
    /\ val.flds[2] = [l |-> <<>>]
    /\ val.flds[3] = [m |-> <<>>]
    /\ NilLineWithoutChildren("features")

\* The fields of the record type whose kind is one of a set
FieldsOfKind(kinds) == {k \in 1..Len(typ.fields) : typ.fields[k].type.kind \in kinds}

\* The line that gives the literal nil to field k
NilLineOf(k) == "(" \o SemanticKey(typ.fields[k]) \o ") nil"

NilableSlotKinds == {"ptr", "slice", "map", "interface"}

\* C3: decoding a key-value line whose value is the literal nil into a
\* pointer, list, map or interface slot leaves the slot nil, whatever it
\* held before, and never a present-but-empty collection.
C3_NilIntoNilable ==
    (/\ pc = "unmarshalled"
     /\ data # ""
     /\ \A j \in 1..(Len(DataLines) - 1) :
            \E k \in FieldsOfKind(NilableSlotKinds) : DataLines[j] = NilLineOf(k))
        => /\ err = NoErr
           /\ \A k \in FieldsOfKind(NilableSlotKinds) :
                  (\E j \in 1..Len(DataLines) : DataLines[j] = NilLineOf(k))
                      => dst.flds[k] = Nil(typ.fields[k].type.kind)
           /\ \A k \in 1..Len(typ.fields) :
                  (\A j \in 1..Len(DataLines) : DataLines[j] # NilLineOf(k))
                      => dst.flds[k] = val.flds[k]

\* C3's case: a non-empty list and a non-empty map were given nil.
C3_Witness ==
    /\ pc = "unmarshalled"
    /\ typ = Slots
    /\ val = SlotsFilled
    /\ data = "(list) nil\n(map) nil\n"
    /\ err = NoErr
    /\ dst.flds[2] = Nil("slice")
    /\ dst.flds[3] = Nil("map")

\* C4: decoding "(k) nil" where k resolves to an integer, unsigned
\* integer, float, boolean or plain string slot makes Decode return the
\* type-mismatch error, and the slot keeps the value it had.
C4_NilIntoScalar ==
    pc = "unmarshalled"
        => \A lines \in {DataLines} :
               \A k \in FieldsOfKind(ScalarKinds) :
                   \A j \in 1..Len(lines) :
                       (/\ lines[j] = NilLineOf(k)
                        /\ \A h \in 1..(j - 1) :
                               \E g \in FieldsOfKind(NilableSlotKinds \cup ScalarKinds) :
                                   g # k /\ lines[h] = NilLineOf(g))
                           => (err = ErrNilToNonNillable /\ dst.flds[k] = val.flds[k])

\* C4's case: a string slot holding text was given nil, after a line that
\* decoded without error.
C4_Witness ==
    /\ pc = "unmarshalled"
    /\ typ = Slots
    /\ val = SlotsFilled
    /\ data = "(ptr) nil\n(str) nil\n"
    /\ err = ErrNilToNonNillable
    /\ dst.flds[1] = Nil("ptr")
    /\ dst.flds[9] = S("old")

RECURSIVE Join(_)
\* The lines joined by newlines
Join(lines) ==
    IF lines = <<>> THEN ""
    ELSE IF Len(lines) = 1 THEN lines[1]
    ELSE lines[1] \o "\n" \o Join(Tail(lines))

\* The keys of the fields of the record type
KnownKeys == {SemanticKey(typ.fields[k]) : k \in 1..Len(typ.fields)}

IsBlankLine(line) == TrimSpace(CleanComments(line)) = ""

\* Line i is a key line at indent 0 whose key names no field; when it
\* carries a value, the line after it is not indented (a key-value line
\* opens no block)
UnknownKeyLine(i) ==
    LET line == CleanComments(DataLines[i])
        close == Index(line, ")")
    IN  /\ HasPrefix(line, "(")
        /\ close # -1
        /\ SubSeq(line, 2, close) \notin KnownKeys
        /\ (TrimSpace(Drop(line, close + 1)) # "" /\ i < Len(DataLines))
               => ~HasPrefix(DataLines[i + 1], " ")

\* Line i is key-only
KeyOnlyLine(i) ==
    LET line == CleanComments(DataLines[i])
    IN  TrimSpace(Drop(line, Index(line, ")") + 1)) = ""

\* The index after the block of line i: the first later line that is
\* neither blank nor indented, or the end of the document
BlockEnd(i) ==
    LET later == {j \in (i + 1)..Len(DataLines) :
                      ~IsBlankLine(DataLines[j]) /\ ~HasPrefix(DataLines[j], " ")}
    IN  IF ~KeyOnlyLine(i) THEN i + 1
        ELSE IF later = {} THEN Len(DataLines) + 1
        ELSE CHOOSE j \in later : \A h \in later : j <= h

\* The document without its lines i .. j-1
Without(i, j) == Join(SubSeq(DataLines, 1, i - 1) \o SubSeq(DataLines, j, Len(DataLines)))

\* C5: a key line of a record block that resolves to no slot is consumed,
\* with every following deeper line when it is key-only, without
\* assigning a slot, and the sibling keys before and after it decode as in
\* the document with the unknown key and its block removed.
C5_UnknownKeySkipped ==
    (pc = "unmarshalled" /\ typ = DBConfig)
        => \A i \in 1..Len(DataLines) :
               UnknownKeyLine(i)
                   => LET r == Unmarshal(Without(i, BlockEnd(i)), PtrTo(typ), P(val))
                      IN  (err = NoErr) = (r.err = NoErr) /\ dst = r.v.p

\* The keys of the key lines of the document, at any indent
KeysInData ==
    {ParseLine(CleanComments(DataLines[j]), 0).key :
        j \in {h \in 1..Len(DataLines) :
                  HasPrefix(TrimSpace(DataLines[h]), "(") /\ Contains(DataLines[h], ")")}}

\* C6: a field whose tag is the exclusion marker "-" is out of
\* consideration in both directions: Encode emits no key line for it, and
\* for every document Decode leaves it with the value it had.
C6_ExcludedField ==
    pc \in {"marshalled", "unmarshalled"}
        => \A k \in 1..Len(typ.fields) :
               typ.fields[k].tag = "-"
                   => /\ (pc = "marshalled" /\ err = NoErr)
                             => KeysInData \cap {"-", ToLower(typ.fields[k].name)} = {}
                      /\ pc = "unmarshalled" => dst.flds[k] = val.flds[k]

RECURSIVE SlotPaths(_)
\* The paths of the slots a key is resolved among: the fields of the
\* record and, through its embedded records, theirs
SlotPaths(T) ==
    UNION {{<<k>>} \cup (IF T.fields[k].anonymous /\ T.fields[k].type.kind = "struct"
                         THEN {<<k>> \o sub : sub \in SlotPaths(T.fields[k].type)}
                         ELSE {}) : k \in 1..Len(T.fields)}

RECURSIVE FieldAt(_, _)
\* The field declaration at a path
FieldAt(T, path) ==
    IF Len(path) = 1 THEN T.fields[path[1]] ELSE FieldAt(T.fields[path[1]].type, Tail(path))

\* The field matches the key by its tag, or by its lowercased name when it
\* has no tag
Matches(field, key) ==
    field.tag = key \/ (field.tag = "" /\ ToLower(field.name) = key)

RECURSIVE SearchedBefore(_, _)
\* Slot r is met before slot q by a depth-first search in declaration
\* order: an embedded field before the fields of its record
SearchedBefore(r, q) ==
    IF r = <<>> THEN q # <<>>
    ELSE IF q = <<>> THEN FALSE
    ELSE IF r[1] # q[1] THEN r[1] < q[1]
    ELSE SearchedBefore(Tail(r), Tail(q))

\* The promoted slots of the record type that match the key: fields of an
\* embedded record, at any depth
PromotedSlots(key) ==
    {q \in SlotPaths(typ) : Len(q) > 1 /\ Matches(FieldAt(typ, q), key)}

\* The last line of the document
LastLine == DataLines[Len(DataLines) - 1]

\* C7 as stated: for a record with an embedded sub-record, at any depth
\* and whatever tag the embedded field carries, a key line at the parent's
\* indent whose key matches a field of the embedded sub-record assigns
\* that embedded field.
C7_PromotionAnyTag ==
    (pc = "unmarshalled" /\ typ \in EmbeddedTypes /\ data # "" /\ LastLine = "(timeout) 30")
        => \A q \in PromotedSlots("timeout") : FieldValue(dst, q) = I(30)

\* C7, amended: the key line assigns the embedded field provided no slot
\* searched before it (a field declared earlier, or an embedded field
\* itself by its own tag or lowercased name) matches the key.
C7_PromotionFirstMatch ==
    (pc = "unmarshalled" /\ typ \in EmbeddedTypes /\ data # "" /\ LastLine = "(timeout) 30")
        => \A q \in PromotedSlots("timeout") :
               (\A r \in SlotPaths(typ) :
                    SearchedBefore(r, q) => ~Matches(FieldAt(typ, r), "timeout"))
                   => (err = NoErr /\ FieldValue(dst, q) = I(30))

\* C7's case: the field of a record embedded two levels deep, and the
\* field of a record embedded under a tag, were assigned from the parent's
\* level.
C7_Witness ==
    /\ pc = "unmarshalled"
    /\ data = "(app_name) My-App\n(timeout) 30\n"
    /\ \/ typ = DeepSettings /\ dst.flds[2].flds[1].flds[1] = I(30)
       \/ typ = TaggedSettings /\ dst.flds[2].flds[1] = I(30)

\* The lines of the document that are not indented
TopLines == {DataLines[j] : j \in {h \in 1..Len(DataLines) : ~HasPrefix(DataLines[h], " ")}}

\* C8: when a record has an embedded sub-record, Encode writes each field
\* of the embedded sub-record as a key line in the parent's own key list
\* at the parent's own indent, with no key line for the embedded
\* sub-record itself.
C8_EncodeInlinesEmbedded ==
    (pc = "marshalled" /\ err = NoErr)
        => \A k \in 1..Len(typ.fields) :
               (typ.fields[k].anonymous /\ typ.fields[k].tag # "-"
                /\ typ.fields[k].type = BaseSettings)
                   => /\ "(timeout) " \o FormatInt(val.flds[k].flds[1].i) \in TopLines
                      /\ \A j \in 1..Len(DataLines) :
                             TrimSpace(DataLines[j]) # "(" \o SemanticKey(typ.fields[k]) \o ")"

\* A content line of a multi-line block indented by two spaces: free text
\* with no comment and no structural prefix
IsContentLine(line) ==
    /\ HasPrefix(line, "  ")
    /\ ~Contains(line, "#")
    /\ At(line, 3) \notin {"", " ", "(", ">"}

\* The document is the header "(content)" and a block of content lines
\* and blank lines that starts and ends with a content line
IsMultiLineBlock ==
    /\ Len(DataLines) >= 3
    /\ DataLines[1] = "(content)"
    /\ IsContentLine(DataLines[2])
    /\ IsContentLine(LastLine)
    /\ \A j \in 2..(Len(DataLines) - 1) : IsContentLine(DataLines[j]) \/ DataLines[j] = ""

\* The text of the block: its lines without their indent, joined by
\* newlines, a blank line giving an empty segment
BlockText ==
    Join([j \in 1..(Len(DataLines) - 2) |->
            IF DataLines[j + 1] = "" THEN "" ELSE Drop(DataLines[j + 1], 2)])

\* C9: when decoding a multi-line string block, every blank physical line
\* lying strictly between two content lines of the block is preserved as
\* an empty segment of the joined string.
C9_BlankLinesPreserved ==
    (pc = "unmarshalled" /\ typ = Note /\ IsMultiLineBlock)
        => (err = NoErr /\ dst.flds[1] = S(BlockText))

\* The string has several lines, one of them starting with #
HasHashLine(text) ==
    /\ Contains(text, "\n")
    /\ \E j \in 1..Len(Split(text, "\n")) : HasPrefix(Split(text, "\n")[j], "#")

\* C10: Encode prefixes with a backslash every line of a multi-line string
\* that starts with #, Decode turns a content line that starts with
\* backslash-# back into a line starting with #, and so a multi-line
\* string with a line starting with # satisfies Decode(Encode(v)) == v.
C10_EscapedHash ==
    /\ (pc = "marshalled" /\ typ = Note /\ HasHashLine(val.flds[1].s))
           => \A j \in 1..Len(Split(val.flds[1].s, "\n")) :
                  LET line == Split(val.flds[1].s, "\n")[j]
                  IN  DataLines[j + 1] = "  " \o (IF HasPrefix(line, "#") THEN "\\" ELSE "")
                                              \o line
    /\ (pc = "roundtrip" /\ typ = Note /\ HasHashLine(val.flds[1].s))
           => (err = NoErr /\ dst = val)
    /\ (pc = "unmarshalled" /\ typ = Note /\ data = "(content)\n  a\n  \\#c\n")
           => (err = NoErr /\ dst.flds[1] = S("a\n#c"))

\* The line is not blank and either has a tab in its leading white space
\* or starts with ( and has no )
Malformed(line) ==
    /\ ~IsBlankLine(line)
    /\ \/ CountIndent(CleanComments(line)) = -1
       \/ /\ HasPrefix(TrimSpace(CleanComments(line)), "(")
          /\ ~Contains(CleanComments(line), ")")

\* The document up to, and without, line i
Before(i) == Join(SubSeq(DataLines, 1, i - 1))

\* C11: for a record destination and any document, if some non-blank line
\* has a tab in its leading white space, or starts with ( and has no ), at
\* any position and depth, Decode does not succeed; and when the lines
\* before the first such line decode without error, the error is a
\* SyntaxError.
C11_SyntaxErrorsFatal ==
    pc = "unmarshalled"
        => \A i \in 1..Len(DataLines) :
               (Malformed(DataLines[i]) /\ \A j \in 1..(i - 1) : ~Malformed(DataLines[j]))
                   => /\ err # NoErr
                      /\ Unmarshal(Before(i), PtrTo(typ), P(val)).err = NoErr
                             => err \in ErrSyntax

\* C12: Decode called with a destination that is not a pointer, or that is
\* a nil pointer, returns ErrInvalidUnmarshal before any parsing: no line
\* of the input is read and the destination is not modified.
C12_InvalidTarget ==
    (pc = "decoded" /\ (typ.kind # "ptr" \/ IsNil(val)))
        => /\ err = ErrInvalidUnmarshal
           /\ dec.pos = 0
           /\ dec.peekBuf = NilLine
           /\ dst = val

\* C12's case: a document with lines was given with a nil pointer
C12_Witness ==
    /\ pc = "decoded"
    /\ typ = PtrTo(DBConfig)
    /\ val = Nil("ptr")
    /\ data = "(port) 1\n(host) h\n"
    /\ err = ErrInvalidUnmarshal
    /\ dst = Nil("ptr")

\* The document is made of key-value lines for the integer slots of Slots
IsIntDoc ==
    /\ typ = Slots
    /\ data # ""
    /\ \A i \in 1..(Len(DataLines) - 1) : DataLines[i] \in IntLines

\* The key and the scalar text of a line of such a document
IntKey(line) == IF HasPrefix(line, "(int) ") THEN "int" ELSE "uint"

IntText(line) ==
    CHOOSE x \in IntTexts : line = "(" \o IntKey(line) \o ") " \o x.text

\* The lines of the document, each as its key and its scalar text
IntDoc == [i \in 1..(Len(DataLines) - 1) |->
               [key |-> IntKey(DataLines[i]), x |-> IntText(DataLines[i])]]

\* The text of a line is a base-10 integer in the range of its slot: 8 bits
\* signed for Int, 8 bits unsigned for Uint
InRange(l) ==
    /\ l.x.int
    /\ l.key = "int" => (l.x.val >= -128 /\ l.x.val <= 127)
    /\ l.key = "uint" => (l.x.val >= 0 /\ l.x.val <= 255)

\* The first line of doc whose text is not an integer in range, or the
\* number of lines plus one
FirstRejected(doc) ==
    IF \A i \in DOMAIN doc : InRange(doc[i]) THEN Len(doc) + 1
    ELSE CHOOSE i \in DOMAIN doc :
             ~InRange(doc[i]) /\ \A j \in 1..(i - 1) : InRange(doc[j])

\* The value of a slot after the first n lines of doc: the value of the
\* last of them for the slot, or the value the slot had
SlotAfter(doc, n, key, k) ==
    IF \A i \in 1..n : doc[i].key # key THEN val.flds[k]
    ELSE I(doc[CHOOSE i \in 1..n :
                   doc[i].key = key /\ \A j \in (i + 1)..n : doc[j].key # key].x.val)

\* C13: decoding scalar text into a signed or unsigned integer slot of bit
\* width w assigns the slot only when the text is a base-10 integer in the
\* range of width w; any other text makes Decode return an error, the slot
\* keeps its previous value and no wrapped-around value is stored.
C13_IntegerWidth ==
    (pc = "unmarshalled" /\ IsIntDoc)
        => \A doc \in {IntDoc} :
               \A n \in {FirstRejected(doc) - 1} :
                   /\ (err = NoErr) = (n = Len(doc))
                   /\ dst.flds[5] = SlotAfter(doc, n, "int", 5)
                   /\ dst.flds[6] = SlotAfter(doc, n, "uint", 6)
                   /\ dst.flds[5].i \in -128..127
                   /\ dst.flds[6].i \in 0..255

\* C13's case: the largest value of the width was assigned and the next
\* one rejected
C13_Witness ==
    /\ pc = "unmarshalled"
    /\ typ = Slots
    /\ data = "(int) 127\n(int) 128\n"
    /\ err = "piml: integer overflow"
    /\ dst.flds[5] = I(127)

\* The index of the line "(admins)" of the document
AdminsLine == CHOOSE j \in 1..Len(DataLines) : DataLines[j] = "(admins)"

\* C14: Encode renders a list of records held in a record slot as the key
\* alone on its line, then for each element a header line "> (TypeName)"
\* two spaces deeper than the key, followed by the element's field lines
\* two spaces deeper than the header.
C14_ListOfRecordsLayout ==
    (/\ pc = "marshalled"
     /\ err = NoErr
     /\ typ = ComplexConfig
     /\ ~IsNil(val.flds[3])
     /\ val.flds[3].l # <<>>
     /\ \A n \in 1..Len(val.flds[3].l) : ~IsNil(val.flds[3].l[n]))
        => /\ \E j \in 1..Len(DataLines) : DataLines[j] = "(admins)"
           /\ \A n \in 1..Len(val.flds[3].l) :
                  LET h == AdminsLine + 3 * (n - 1) + 1
                      user == val.flds[3].l[n].p
                  IN  /\ DataLines[h] = "  > (User)"
                      /\ DataLines[h + 1] = "    (id) " \o FormatInt(user.flds[1].i)
                      /\ DataLines[h + 2] = "    (name) " \o user.flds[2].s

\* The document is made of full-line comments and key-value lines, one of
\* them with a # after its value
IsCommentDoc ==
    /\ typ = DBConfig
    /\ \A i \in 1..(Len(DataLines) - 1) : DataLines[i] \in CommentLines

\* C15: full-line comments are skipped, but on a "(key) value" line a #
\* that follows the value text starts no comment: the decoded value is the
\* whole trimmed text after the closing parenthesis, the # and what follows
\* it included.
C15_InlineHashKept ==
    (pc = "unmarshalled" /\ IsCommentDoc)
        => /\ err = NoErr
           /\ dst.flds[1] = IF \E i \in 1..Len(DataLines) : DataLines[i] = "(host) h # n"
                            THEN S("h # n") ELSE val.flds[1]
           /\ dst.flds[2] = IF \E i \in 1..Len(DataLines) : DataLines[i] = "(port) 1"
                            THEN I(1) ELSE val.flds[2]

\* The document is made of structural lines of IndentLines
IsIndentDoc ==
    /\ typ = ComplexConfig
    /\ \A i \in 1..(Len(DataLines) - 1) : DataLines[i] \in IndentLines

\* The number of spaces line i of the document starts with, and the line
\* without them
IndentOf(i) == Len(DataLines[i]) - Len(TrimSpace(DataLines[i]))

ContentOf(i) == TrimSpace(DataLines[i])

\* Line i is a key line or an object header: a line that can open a value
Opens(i) == HasPrefix(ContentOf(i), "(") \/ HasPrefix(ContentOf(i), "> (")

\* The indent widths ws give the same nesting as the widths ind to lines of
\* which those of opens are key and header lines: for every line, the same
\* earlier key and header lines have a strictly smaller indent
SameNesting(ind, opens, ws) ==
    \A i \in DOMAIN ind :
        \A j \in opens :
            j < i => ((ws[j] < ws[i]) <=> (ind[j] < ind[i]))

\* The one choice of indent widths that stands for all the widths of the
\* same nesting as ind
Canonical(ind, opens) ==
    CHOOSE ws \in [DOMAIN ind -> IndentWidths] : SameNesting(ind, opens, ws)

RECURSIVE ReindentedFrom(_, _)
\* The lines of the document from line i on, indented by the widths ws
ReindentedFrom(ws, i) ==
    IF i > Len(DataLines) - 1 THEN ""
    ELSE Repeat(" ", ws[i]) \o ContentOf(i) \o "\n" \o ReindentedFrom(ws, i + 1)

\* C16: two documents with the same structural lines whose indent widths
\* differ but give the same nesting decode into equal values, with the
\* same error: every document decodes as the document of the same lines
\* at the canonical widths of its nesting.
C16_IndentWidthIndependence ==
    (pc = "unmarshalled" /\ IsIndentDoc)
        => \A ind \in {[i \in 1..(Len(DataLines) - 1) |-> IndentOf(i)]} :
               \A opens \in {{i \in DOMAIN ind : Opens(i)}} :
                   \A r \in {Unmarshal(ReindentedFrom(Canonical(ind, opens), 1),
                                       PtrTo(typ), P(val))} :
                       /\ r.err = err
                       /\ r.v.p = dst

\* A record of a list nested three levels deep at the widths 0, 1 and 3
C16_Witness ==
    /\ pc = "unmarshalled"
    /\ data = "(admins)\n > (User)\n   (id) 1\n"
    /\ err = NoErr
    /\ dst.flds[3] = [l |-> <<P(Rec(<<I(1), S("")>>))>>]

\* The kind of child line i of such a document: a key line or a list line
ChildKind(i) == IF HasPrefix(ContentOf(i), "(") THEN "key" ELSE "list"

\* Line j is a key-only header whose block starts with two child lines of
\* the same indent and of different kinds
MixedUnder(j) ==
    /\ j + 2 <= Len(DataLines) - 1
    /\ ContentOf(j) = "(admins)"
    /\ IndentOf(j) < IndentOf(j + 1)
    /\ IndentOf(j + 1) = IndentOf(j + 2)
    /\ ChildKind(j + 1) # ChildKind(j + 2)

\* C17: a document in which the block under a key-only header contains
\* child lines of two different kinds makes Decode return a syntax error,
\* in whichever order the two kinds appear.
C17_NoMixedChildren ==
    (/\ pc = "unmarshalled"
     /\ IsIndentDoc
     /\ \E j \in 1..(Len(DataLines) - 1) : MixedUnder(j))
        => err \in ErrSyntax

\* The fields of the record type whose explicit tag is the key, and the
\* untagged fields whose name is the key but for the case of its letters
TagMatches(key) == {k \in 1..Len(typ.fields) : typ.fields[k].tag = key}

NameMatches(key) ==
    {k \in 1..Len(typ.fields) :
        typ.fields[k].tag = "" /\ ToLower(typ.fields[k].name) = ToLower(key)}

\* C18: resolving a key against a record type returns the field whose
\* explicit tag equals the key whenever there is one, whatever its
\* position; only when no tag matches does it return an untagged field
\* whose name matches the key case-insensitively.
C18_KeyResolution ==
    (pc = "unmarshalled" /\ typ \in {Listener, Endpoint})
        => \A key \in KeysInData :
               /\ TagMatches(key) # {}
                      => \E k \in TagMatches(key) : findStructField(typ, key) = <<k>>
               /\ (TagMatches(key) = {} /\ NameMatches(key) # {})
                      => \E k \in NameMatches(key) : findStructField(typ, key) = <<k>>

\* The line the cursor of the Decoder is on, without its comment, and that
\* line without its surrounding white space
Stripped == CleanComments(dec.s[dec.pos])

Trimmed == TrimSpace(Stripped)

RECURSIVE LeadingTab(_)
\* There is a tab in the white space the text starts with
LeadingTab(text) ==
    /\ text # ""
    /\ \/ Head(text) = "\t"
       \/ Head(text) = " " /\ LeadingTab(Tail(text))

\* The text between the "(" a key line starts with and its first ")", and
\* the text after that ")"
BetweenParens(t) == Take(Drop(t, 1), Index(Drop(t, 1), ")"))

AfterParen(t) == Drop(t, Index(t, ")") + 1)

\* The kind of a line by its prefix, in the priority "> (", ">|", ">", "("
KindByPrefix(t) ==
    IF HasPrefix(t, "> (") THEN "lineArrayObject"
    ELSE IF HasPrefix(t, ">|") THEN "lineSetItem"
    ELSE IF HasPrefix(t, ">") THEN "lineArrayItem"
    ELSE IF HasPrefix(t, "(")
         THEN IF TrimSpace(AfterParen(t)) = "" THEN "lineKeyOnly" ELSE "lineKeyValue"
    ELSE "lineMultiLine"

\* C19: peek classifies every non-blank line by the prefix of the
\* comment-stripped, trimmed line, in the priority "> (", ">|", ">", "(",
\* else multi-line content; the key of a key line is the text between "("
\* and the first ")", and the line is key-only exactly when only white
\* space follows that ")"; peek fails only on a tab in the leading white
\* space and on a "(" without ")".
C19_Classification ==
    (pc = "peeked" /\ (peeked # NilLine \/ err # NoErr))
        => \A t \in {Trimmed} :
               IF LeadingTab(Stripped) \/ (HasPrefix(t, "(") /\ ~Contains(t, ")"))
               THEN err \in ErrSyntax /\ peeked = NilLine
               ELSE /\ err = NoErr
                    /\ peeked.lineType = KindByPrefix(t)
                    /\ HasPrefix(t, "(") => peeked.key = BetweenParens(t)

\* C19's case: a key with a space in it, after an object header
C19_Witness ==
    /\ pc = "peeked"
    /\ data = "> (User)\n(first name) John\n"
    /\ err = NoErr
    /\ peeked.lineType = "lineKeyValue"
    /\ peeked.key = "first name"

RECURSIVE NonBlankLines(_)
\* The lineInfo of each of the first n lines of the input that is not
\* blank once its comment is cut, in the order of the document
NonBlankLines(n) ==
    IF n = 0 THEN <<>>
    ELSE IF TrimSpace(CleanComments(dec.s[n])) = "" THEN NonBlankLines(n - 1)
    ELSE Append(NonBlankLines(n - 1),
                ParseLine(CleanComments(dec.s[n]), CountIndent(CleanComments(dec.s[n]))))

\* C20: the Decoder buffers at most one line, the last one peek returned;
\* calls of peek with a line in the buffer return it again and leave the
\* cursor where it is, and after consume the next peek returns the
\* following non-blank line: the lines peek has returned are the non-blank
\* lines the cursor has passed, in the order of the document, none skipped
\* and none returned again.  The state in which the last peek failed on
\* the line the cursor is on is left aside.
C20_OneLineLookahead ==
    (pc \in {"scanning", "peeked", "consumed"} /\ err = NoErr)
        => /\ hist = NonBlankLines(dec.pos)
           /\ dec.peekBuf # NilLine => dec.peekBuf = hist[Len(hist)]
           /\ (pc = "peeked" /\ peeked # NilLine) => peeked = hist[Len(hist)]

\* The document is made of lines of AbsentLines, and no key-only header
\* of it is followed by a line of a greater indent
IsAbsentDoc ==
    /\ typ = Slots
    /\ data # ""
    /\ \A i \in 1..(Len(DataLines) - 1) : DataLines[i] \in AbsentLines
    /\ \A i \in 1..(Len(DataLines) - 2) :
           ContentOf(i) # "(int) 5" => IndentOf(i + 1) <= IndentOf(i)

\* C21: when a key-only header of a record field is followed by the end
\* of the input or by a line whose indent is not greater than its own,
\* the field is left as it was (a nil pointer nil, a list and a string
\* with their contents), and the next line is decoded as a sibling: every
\* line is consumed and a key-value line after the header is assigned.
C21_AbsentValue ==
    (pc = "unmarshalled" /\ IsAbsentDoc)
        => /\ err = NoErr
           /\ dst.flds[1] = val.flds[1]
           /\ dst.flds[2] = val.flds[2]
           /\ dst.flds[9] = val.flds[9]
           /\ dst.flds[5] = IF \E i \in 1..Len(DataLines) : DataLines[i] = "(int) 5"
                            THEN I(5) ELSE val.flds[5]
           /\ dec.pos = Len(dec.s)
           /\ dec.peekBuf = NilLine

\* C21's case: the header of a list that holds elements is followed by a
\* sibling line
C21_Witness ==
    /\ pc = "unmarshalled"
    /\ val = SlotsFilled
    /\ data = "(list)\n(int) 5\n"
    /\ err = NoErr
    /\ dst.flds[2] = val.flds[2]
    /\ dst.flds[2] # Nil("slice")
    /\ dst.flds[5] = I(5)

\* A line is a list item
IsItem(l) == HasPrefix(TrimSpace(l), ">")

\* The document is made of lines of ListLines, it starts with a key line
\* and no header of it is followed by a deeper key line
IsListDoc ==
    /\ typ = Slots
    /\ \A i \in 1..(Len(DataLines) - 1) : DataLines[i] \in ListLines
    /\ ~IsItem(data)
    /\ \A i \in 1..(Len(DataLines) - 2) :
           ~(DataLines[i] = "(list)" /\ DataLines[i + 1] = "  (list)")

\* The number of spaces a line starts with
Spaces(l) == Len(l) - Len(TrimSpace(l))

RECURSIVE BlockOf(_, _, _)
\* The values of the items of the list block that starts at line i of
\* lines under a header of indent h: the block ends at the first line that
\* is no item or whose indent is not greater than h
BlockOf(lines, i, h) ==
    IF i > Len(lines) \/ ~IsItem(lines[i]) \/ Spaces(lines[i]) <= h THEN <<>>
    ELSE <<S(TrimSpace(Drop(TrimSpace(lines[i]), 1)))>> \o BlockOf(lines, i + 1, h)

RECURSIVE ListAfter(_, _, _, _)
\* What the lines from line i on make of the list slot and of the Int
\* slot, and the error they end in: a header replaces the list by the
\* items of its block when it has one, the line that ends a block is read
\* as a sibling, and an item that is a sibling of keys is a syntax error
ListAfter(lines, i, list, int) ==
    IF i > Len(lines) THEN [list |-> list, int |-> int, err |-> NoErr]
    ELSE IF IsItem(lines[i]) THEN [list |-> list, int |-> int, err |-> ErrSyntaxExpectedKey]
    ELSE IF lines[i] = "(int) 5" THEN ListAfter(lines, i + 1, list, I(5))
    ELSE ListAfter(lines, i + 1 + Len(BlockOf(lines, i + 1, Spaces(lines[i]))),
                   IF BlockOf(lines, i + 1, Spaces(lines[i])) = <<>> THEN list
                   ELSE [l |-> BlockOf(lines, i + 1, Spaces(lines[i]))],
                   int)

\* C22: after a list block is decoded the list holds one element per item
\* line of the block, in the order of the document, and none of the
\* elements it held before; the block ends at the first line that is no
\* list item or whose indent is not greater than the header's, and that
\* line is read next, as a sibling of the header.
C22_ListReplaced ==
    (pc = "unmarshalled" /\ IsListDoc)
        => \A exp \in {ListAfter(SubSeq(DataLines, 1, Len(DataLines) - 1), 1,
                                 val.flds[2], val.flds[5])} :
               /\ err = exp.err
               /\ dst.flds[2] = exp.list
               /\ dst.flds[5] = exp.int

\* C22's case: a list that held an element is given two items, at
\* different indents, and the key line after them is decoded
C22_Witness ==
    /\ pc = "unmarshalled"
    /\ val = SlotsFilled
    /\ data = "(list)\n  > a\n    > b\n"
    /\ err = NoErr
    /\ dst.flds[2] = [l |-> <<S("a"), S("b")>>]

\* The lines, each with two more spaces in front
Indented(lines) == [i \in 1..Len(lines) |-> "  " \o lines[i]]

\* The lines of a multi-line text, a line that starts with # escaped
TextLines(text) ==
    LET lines == Split(text, "\n")
    IN  [i \in 1..Len(lines) |->
            IF HasPrefix(lines[i], "#") THEN "\\" \o lines[i] ELSE lines[i]]

RECURSIVE RecordLines(_, _, _, _)
RECURSIVE EntryLines(_, _, _, _)
\* The canonical lines of the value v of type T under a key: a scalar on
\* the line of the key, a nested record, map or multi-line string on the
\* lines after it, two spaces deeper; o is the order of the keys of maps
EntryLines(key, T, v, o) ==
    IF Deref(T, v).T.kind = "invalid" \/ isNilOrEmpty(T, v) THEN <<"(" \o key \o ") nil">>
    ELSE IF Deref(T, v).T.kind = "struct"
    THEN <<"(" \o key \o ")">> \o Indented(RecordLines(Deref(T, v).T, Deref(T, v).v, o, 1))
    ELSE IF Deref(T, v).T.kind = "map"
    THEN <<"(" \o key \o ")">>
         \o Indented(RecordLines(Deref(T, v).T, Deref(T, v).v, o, MapKeys(Deref(T, v).v, o)))
    ELSE IF Deref(T, v).T.kind = "string" /\ Contains(Deref(T, v).v.s, "\n")
    THEN <<"(" \o key \o ")">> \o Indented(TextLines(Deref(T, v).v.s))
    ELSE <<"(" \o key \o ") " \o FormatScalar(Deref(T, v).T, Deref(T, v).v)>>

\* The canonical lines of a record from its field k on, in the order of
\* declaration and without the excluded fields, and those of a map for
\* the keys k still to write
RecordLines(T, v, o, k) ==
    IF T.kind = "map"
    THEN IF k = <<>> THEN <<>>
         ELSE EntryLines(Head(k), T.elem, v.m[Head(k)], o) \o RecordLines(T, v, o, Tail(k))
    ELSE IF k > Len(T.fields) THEN <<>>
    ELSE IF T.fields[k].tag = "-" THEN RecordLines(T, v, o, k + 1)
    ELSE EntryLines(SemanticKey(T.fields[k]), T.fields[k].type, v.flds[k], o)
         \o RecordLines(T, v, o, k + 1)

\* Field k of the record holds a list with elements
IsListField(k) ==
    /\ Deref(typ.fields[k].type, val.flds[k]).T.kind = "slice"
    /\ ~isNilOrEmpty(typ.fields[k].type, val.flds[k])

\* The first line from line i on that does not start with a space, or the
\* number of lines plus one
RECURSIVE NextTop(_, _)
NextTop(lines, i) ==
    IF i > Len(lines) \/ ~HasPrefix(lines[i], " ") THEN i ELSE NextTop(lines, i + 1)

RECURSIVE IsCanonicalFrom(_, _, _)
\* The lines from line i on are the canonical lines of the fields of the
\* record from field k on; of a list only the key line and the indent of
\* the lines under it are looked at
IsCanonicalFrom(lines, i, k) ==
    IF k > Len(typ.fields) THEN i = Len(lines) + 1
    ELSE IF typ.fields[k].tag = "-" THEN IsCanonicalFrom(lines, i, k + 1)
    ELSE IF IsListField(k)
    THEN /\ i <= Len(lines)
         /\ lines[i] = "(" \o SemanticKey(typ.fields[k]) \o ")"
         /\ IsCanonicalFrom(lines, NextTop(lines, i + 1), k + 1)
    ELSE \A exp \in {EntryLines(SemanticKey(typ.fields[k]), typ.fields[k].type,
                                val.flds[k], ord)} :
             /\ i + Len(exp) - 1 <= Len(lines)
             /\ SubSeq(lines, i, i + Len(exp) - 1) = exp
             /\ IsCanonicalFrom(lines, i + Len(exp), k + 1)

\* C23: Encode writes the fields of a record that are not excluded in the
\* order of declaration, one key line for each; a scalar follows its key
\* on the same line, and a nested record, a map and a multi-line string
\* start on the next line, their lines indented by exactly two spaces more
\* than the key.  Records with embedded fields are left aside.
C23_CanonicalRecord ==
    (/\ pc = "marshalled"
     /\ err = NoErr
     /\ \A k \in 1..Len(typ.fields) : ~typ.fields[k].anonymous)
        => IsCanonicalFrom(SubSeq(DataLines, 1, Len(DataLines) - 1), 1, 1)

\* C23's case: a record with a multi-line string and a nested record
C23_Witness ==
    /\ pc = "marshalled"
    /\ typ = ComplexConfig
    /\ err = NoErr
    /\ data = "(description)\n  This is a\n  multi-line description.\n(database)\n"
              \o "  (host) localhost\n  (port) 5432\n(admins) nil\n(features) nil\n"

\* The destination of the call is a record or a map
IsObjectDestination ==
    \/ pc \in {"roundtrip", "unmarshalled"}
    \/ pc = "decoded" /\ typ.kind = "ptr" /\ typ.elem.kind \in {"struct", "map"}

\* C24: when Decode into a record or map destination returns success,
\* every non-blank line of the input has been consumed: the next peek
\* reports the end of the input.
C24_AllLinesConsumed ==
    (IsObjectDestination /\ err = NoErr)
        => \A pk \in {peek(dec)} : pk.err = NoErr /\ pk.line = NilLine

RECURSIVE ItemEntries(_, _, _)
ItemEntries(lines, i, j) ==
    IF i >= j THEN 0
    ELSE (IF HasPrefix(lines[i], "  >") THEN 1 ELSE 0) + ItemEntries(lines, i + 1, j)

\* C26: for a list of n elements, n not zero, nil pointers included, a
\* successful Encode writes exactly n item entries at the indent of the
\* list, under the key of the list.
C26_ListLengthPreserved ==
    (/\ pc = "marshalled"
     /\ typ = ComplexConfig
     /\ err = NoErr
     /\ ~isNilOrEmpty(typ.fields[3].type, val.flds[3]))
        => \A lines \in {DataLines} :
               \E i \in 1..Len(lines) :
                   /\ lines[i] = "(admins)"
                   /\ ItemEntries(lines, i + 1, NextTop(lines, i + 1)) = Len(val.flds[3].l)

====
